---- MODULE Spec2Model ----
(***************************************************************************)
(* BeemSpec story-map store and its CRUD endpoints.                        *)
(*                                                                         *)
(* The state is the relational store (the story-map tables activities,     *)
(* tasks, releases, stories; the account tables story_maps, users, teams,  *)
(* team_members), the session of the caller, the clock, the last HTTP      *)
(* response, and an in-flight full story-map fetch.  Every endpoint is one *)
(* action; the database functions, triggers and row-level-security         *)
(* policies are operators applied inside the action that calls them.       *)
(*                                                                         *)
(* Some route files hold several revisions of the same handler.  The model *)
(* takes the newest revision present for each endpoint: the handlers that  *)
(* validate with zod and call the atomic database functions, and, where    *)
(* only an unvalidated revision exists (tasks), that revision.  Release    *)
(* deletion is modelled in both of its atomic revisions: the call of       *)
(* delete_release and the single DELETE with ON DELETE CASCADE.  The       *)
(* revisions they replaced (two DELETE statements, one UPDATE per row)     *)
(* appear as the *_two_steps and *_row_by_row variants.                    *)
(***************************************************************************)
EXTENDS Integers, Sequences, FiniteSets, TLC

VARIABLES activities, tasks, releases, stories, next_id, response, fetch,
          story_maps, users, teams, team_members, team_invites, auth_uid, now

tables == <<activities, tasks, releases, stories>>
accounts == <<story_maps, users, teams, team_members, team_invites>>
vars == <<activities, tasks, releases, stories, next_id, response, fetch,
          story_maps, users, teams, team_members, team_invites, auth_uid, now>>

(***************************************************************************)
(* Bounds of the model                                                     *)
(***************************************************************************)
MaxActivities == 2
MaxTasks == 2
MaxReleases == 2
MaxStories == 2
MaxOrderLen == 2
MaxSortOrder == 1
MaxUsers == 3
MaxTeams == 4
MaxTime == 2
MaxInvites == 2

\* SQL NULL / JSON null
NULL == -1
\* JavaScript undefined: a field absent from the request body
undefined == -2
\* a path id that is not a well-formed UUID
malformed == -3

StoryMaps == {1, 2}
Users == 1..MaxUsers
TeamIds == 1..MaxTeams
InviteIds == 1..MaxInvites
ActivityIds == 1..MaxActivities
TaskIds == 1..MaxTasks
ReleaseIds == 1..MaxReleases
StoryIds == 1..MaxStories

OrderLists(ids) == UNION {[1..n -> ids] : n \in 0..MaxOrderLen}

(***************************************************************************)
(* Helpers of SQL                                                          *)
(***************************************************************************)
ANY(x, arr) == \E i \in 1..Len(arr) : arr[i] = x

\* array_position(arr, x): 1-based index of the first occurrence, NULL if absent
array_position(arr, x) ==
  IF ANY(x, arr)
  THEN CHOOSE i \in 1..Len(arr) : arr[i] = x /\ \A j \in 1..(i - 1) : arr[j] # x
  ELSE NULL

SetMax(S) == CHOOSE m \in S : \A x \in S : x <= m

\* COALESCE(MAX(sort_order), -1) + 1 over the rows of one sibling group
NextSortOrder(group) ==
  (IF group = {} THEN -1 ELSE SetMax({r.sort_order : r \in group})) + 1

(***************************************************************************)
(* BEFORE INSERT triggers                                                  *)
(***************************************************************************)
auto_sort_order_releases(new) ==
  IF new.sort_order = NULL
  THEN [new EXCEPT !.sort_order =
          NextSortOrder({r \in releases : r.story_map_id = new.story_map_id})]
  ELSE new

auto_sort_order_activities(new) ==
  IF new.sort_order = NULL
  THEN [new EXCEPT !.sort_order =
          NextSortOrder({r \in activities : r.story_map_id = new.story_map_id})]
  ELSE new

auto_sort_order_tasks(new) ==
  IF new.sort_order = NULL
  THEN [new EXCEPT !.sort_order =
          NextSortOrder({r \in tasks : r.activity_id = new.activity_id})]
  ELSE new

auto_sort_order_stories(new) ==
  IF new.sort_order = NULL
  THEN [new EXCEPT !.sort_order =
          NextSortOrder({r \in stories : r.task_id = new.task_id
                                          /\ r.release_id = new.release_id})]
  ELSE new

(***************************************************************************)
(* Sessions and row-level security                                         *)
(*                                                                         *)
(* auth_uid is auth.uid() of the request being handled: the user of the    *)
(* session it carries, NULL when it carries none.  Every table has row     *)
(* security enabled; a statement of the caller sees and writes only the    *)
(* rows its policy admits.  The database functions of the story-map tables *)
(* are SECURITY INVOKER, so the statements inside them are filtered alike. *)
(***************************************************************************)
\* requireAuth(): supabase.auth.getUser() returned a user
requireAuth == auth_uid # NULL

isValidUuid(id) == id # malformed

is_team_member(check_team_id) ==
  \E m \in team_members : m.team_id = check_team_id /\ m.user_id = auth_uid

is_team_owner(check_team_id) ==
  \E m \in team_members :
    m.team_id = check_team_id /\ m.user_id = auth_uid /\ m.role = "owner"

\* EXISTS (SELECT 1 FROM story_maps sm WHERE sm.id = story_map_id
\*         AND is_team_member(sm.team_id))
story_maps_policy(story_map_id) ==
  \E sm \in story_maps : sm.id = story_map_id /\ is_team_member(sm.team_id)

activities_policy(row) == story_maps_policy(row.story_map_id)

releases_policy(row) == story_maps_policy(row.story_map_id)

tasks_policy(row) ==
  \E a \in activities : a.id = row.activity_id /\ story_maps_policy(a.story_map_id)

stories_policy(row) ==
  \E t \in tasks :
    /\ t.id = row.task_id
    /\ \E a \in activities : a.id = t.activity_id /\ story_maps_policy(a.story_map_id)

\* An UPDATE or DELETE under a USING policy: `after` is what the statement
\* would make of the table `before`; the rows the policy does not admit stay
\* as they were, without an error.
row_security(before, after, policy(_)) ==
  {r \in after : \E b \in before : b.id = r.id /\ policy(b)}
    \cup {b \in before : ~policy(b)}

(***************************************************************************)
(* Reorder functions: one UPDATE statement each                            *)
(***************************************************************************)
\* reorder_releases with the 1-based array_position stored as it is
reorder_releases_one_based(p_story_map_id, p_order) ==
  {IF r.story_map_id = p_story_map_id /\ ANY(r.id, p_order)
   THEN [r EXCEPT !.sort_order = array_position(p_order, r.id)]
   ELSE r : r \in releases}

reorder_releases(p_story_map_id, p_order) ==
  {IF r.story_map_id = p_story_map_id /\ ANY(r.id, p_order)
   THEN [r EXCEPT !.sort_order = array_position(p_order, r.id) - 1]
   ELSE r : r \in releases}

\* reorder_activities without "AND id = ANY(p_order)": every row of the
\* story map is written, an unlisted one with array_position = NULL
reorder_activities_whole_group(p_story_map_id, p_order) ==
  {IF r.story_map_id = p_story_map_id
   THEN [r EXCEPT !.sort_order = array_position(p_order, r.id) - 1]
   ELSE r : r \in activities}

reorder_activities(p_story_map_id, p_order) ==
  {IF r.story_map_id = p_story_map_id /\ ANY(r.id, p_order)
   THEN [r EXCEPT !.sort_order = array_position(p_order, r.id) - 1]
   ELSE r : r \in activities}

\* reorder_tasks without the condition on the activity
reorder_tasks_any_activity(p_activity_id, p_order) ==
  {IF ANY(r.id, p_order)
   THEN [r EXCEPT !.sort_order = array_position(p_order, r.id) - 1]
   ELSE r : r \in tasks}

reorder_tasks(p_activity_id, p_order) ==
  {IF r.activity_id = p_activity_id /\ ANY(r.id, p_order)
   THEN [r EXCEPT !.sort_order = array_position(p_order, r.id) - 1]
   ELSE r : r \in tasks}

reorder_stories(p_task_id, p_release_id, p_order) ==
  {IF r.task_id = p_task_id /\ r.release_id = p_release_id /\ ANY(r.id, p_order)
   THEN [r EXCEPT !.sort_order = array_position(p_order, r.id) - 1]
   ELSE r : r \in stories}

\* rpc without a transaction: the update of the first row (the lowest id)
\* persists when the store fails after it.
rpc_row_by_row(before, after, failed) ==
  IF failed /\ before # {}
  THEN LET first == CHOOSE i \in {r.id : r \in before} :
                      \A j \in {r.id : r \in before} : i <= j
       IN {r \in after : r.id = first} \cup {r \in before : r.id # first}
  ELSE after

\* the row updates as statements of their own, sent together: when the store
\* fails, the update of the greatest id is lost and the others persist
rpc_last_row_lost(before, after, failed) ==
  LET updated == {r.id : r \in before \ after}
  IN IF failed /\ updated # {}
     THEN LET last == CHOOSE i \in updated : \A j \in updated : j <= i
          IN {r \in before : r.id = last} \cup {r \in after : r.id # last}
     ELSE after

\* supabase.rpc(fn): the function body is one UPDATE statement of one
\* transaction; when the store fails (failed = TRUE) no row of it persists.
rpc(before, after, failed) == IF failed THEN before ELSE after

(***************************************************************************)
(* Responses                                                               *)
(***************************************************************************)
\* The last response, with the parameters of the request it answers that the
\* properties below speak about: the group key(s) and the order list of a
\* reorder, the path id of a request to /api/<entity>/[id], the parent and
\* the sort_order of the body of a created activity or task.
Resp(op, status, key, key2, order) ==
  [op |-> op, status |-> status, key |-> key, key2 |-> key2, order |-> order]

NoResponse == Resp("none", 0, NULL, NULL, <<>>)

\* a response to a request whose parameters are not recorded
Answer(op, status) == Resp(op, status, NULL, NULL, <<>>)

\* A request is handled to its response before the next one is taken up:
\* a handler is one statement at the store, and the store serialises
\* statements.  The full story-map fetch is several statements, and other
\* requests are handled between them.
Ready == response = NoResponse

\* the full story-map fetch: which of its queries have returned, and their rows
Idle == [pc |-> "idle", story_map_id |-> NULL, got |-> {}, story_maps |-> {},
         stories |-> {}, releases |-> {}]

\* The accounts of a store in use: both users have signed up, each owns the
\* personal team made at signup, and both story maps belong to the team of
\* user 1.
Accounts ==
  /\ users = {1, 2}
  /\ teams = {[id |-> 1, name |-> "personal"], [id |-> 2, name |-> "personal"]}
  /\ team_members = {[team_id |-> 1, user_id |-> 1, role |-> "owner"],
                     [team_id |-> 2, user_id |-> 2, role |-> "owner"]}
  /\ team_invites = {}
  /\ story_maps = {[id |-> 1, team_id |-> 1], [id |-> 2, team_id |-> 1]}
  /\ now = 0

\* whom a request may come from: no session, a member of the team of the
\* story maps, a user who is not a member of it
Sessions == {NULL, 1, 2}

Init ==
  /\ activities = {}
  /\ tasks = {}
  /\ releases = {}
  /\ stories = {}
  /\ next_id = [activities |-> 1, tasks |-> 1, releases |-> 1, stories |-> 1, teams |-> 3, invites |-> 1]
  /\ response = NoResponse
  /\ fetch = Idle
  /\ Accounts
  /\ auth_uid \in Sessions

(***************************************************************************)
(* PUT /api/<entity>: bulk reorder                                         *)
(***************************************************************************)
PUT_releases(story_map_id, order, failed) ==
  /\ Ready
  /\ IF ~requireAuth
     THEN /\ response' = Resp("reorder_releases", 401, story_map_id, NULL, order)
          /\ UNCHANGED releases
     ELSE IF Len(order) < 1
     THEN /\ response' = Resp("reorder_releases", 400, story_map_id, NULL, order)
          /\ UNCHANGED releases
     ELSE /\ releases' = rpc(releases,
                             row_security(releases, reorder_releases(story_map_id, order),
                                          releases_policy),
                             failed)
          /\ response' = Resp("reorder_releases", IF failed THEN 500 ELSE 200, story_map_id, NULL, order)
  /\ UNCHANGED <<activities, tasks, stories, next_id, fetch, accounts, auth_uid, now>>

PUT_activities(story_map_id, order, failed) ==
  /\ Ready
  /\ IF ~requireAuth
     THEN /\ response' = Resp("reorder_activities", 401, story_map_id, NULL, order)
          /\ UNCHANGED activities
     ELSE IF Len(order) < 1
     THEN /\ response' = Resp("reorder_activities", 400, story_map_id, NULL, order)
          /\ UNCHANGED activities
     ELSE /\ activities' = rpc(activities,
                               row_security(activities, reorder_activities(story_map_id, order),
                                            activities_policy),
                               failed)
          /\ response' = Resp("reorder_activities", IF failed THEN 500 ELSE 200, story_map_id, NULL, order)
  /\ UNCHANGED <<tasks, releases, stories, next_id, fetch, accounts, auth_uid, now>>

\* no requireAuth and no validateRequest in this handler: the body is passed
\* on as received
PUT_tasks(activity_id, order, failed) ==
  /\ Ready
  /\ tasks' = rpc(tasks,
                  row_security(tasks, reorder_tasks(activity_id, order), tasks_policy),
                  failed)
  /\ response' = Resp("reorder_tasks", IF failed THEN 500 ELSE 200, activity_id, NULL, order)
  /\ UNCHANGED <<activities, releases, stories, next_id, fetch, accounts, auth_uid, now>>

\* no requireAuth in this handler
PUT_stories(task_id, release_id, order, failed) ==
  /\ Ready
  /\ IF Len(order) < 1
     THEN /\ response' = Resp("reorder_stories", 400, task_id, release_id, order)
          /\ UNCHANGED stories
     ELSE /\ stories' = rpc(stories,
                            row_security(stories, reorder_stories(task_id, release_id, order),
                                         stories_policy),
                            failed)
          /\ response' = Resp("reorder_stories", IF failed THEN 500 ELSE 200, task_id, release_id, order)
  /\ UNCHANGED <<activities, tasks, releases, next_id, fetch, accounts, auth_uid, now>>

(***************************************************************************)
(* POST /api/<entity>: create.  insert(...).select().single(): the new row *)
(* has to pass the INSERT policy (to authenticated) and, for the RETURNING *)
(* of select(), the SELECT policy; a row that does not is an error of the  *)
(* statement.                                                              *)
(***************************************************************************)
POST_releases(bodyOk, story_map_id) ==
  /\ Ready
  /\ next_id.releases <= MaxReleases
  /\ IF ~requireAuth
     THEN /\ response' = Answer("create_release", 401)
          /\ UNCHANGED <<releases, next_id>>
     ELSE IF ~bodyOk
     THEN /\ response' = Answer("create_release", 400)
          /\ UNCHANGED <<releases, next_id>>
     ELSE LET new == auto_sort_order_releases(
                       [id |-> next_id.releases, story_map_id |-> story_map_id,
                        sort_order |-> NULL])
          IN IF ~releases_policy(new)
             THEN /\ response' = Answer("create_release", 500)
                  /\ UNCHANGED <<releases, next_id>>
             ELSE /\ releases' = releases \cup {new}
                  /\ next_id' = [next_id EXCEPT !.releases = @ + 1]
                  /\ response' = Answer("create_release", 200)
  /\ UNCHANGED <<activities, tasks, stories, fetch, accounts, auth_uid, now>>

POST_activities(bodyOk, story_map_id) ==
  /\ Ready
  /\ next_id.activities <= MaxActivities
  /\ IF ~requireAuth
     THEN /\ response' = Answer("create_activity", 401)
          /\ UNCHANGED <<activities, next_id>>
     ELSE IF ~bodyOk
     THEN /\ response' = Answer("create_activity", 400)
          /\ UNCHANGED <<activities, next_id>>
     ELSE LET new == auto_sort_order_activities(
                       [id |-> next_id.activities, story_map_id |-> story_map_id,
                        sort_order |-> NULL])
          IN IF ~activities_policy(new)
             THEN /\ response' = Answer("create_activity", 500)
                  /\ UNCHANGED <<activities, next_id>>
             ELSE /\ activities' = activities \cup {new}
                  /\ next_id' = [next_id EXCEPT !.activities = @ + 1]
                  /\ response' = Resp("create_activity", 200, story_map_id, undefined, <<>>)
  /\ UNCHANGED <<tasks, releases, stories, fetch, accounts, auth_uid, now>>

\* no requireAuth in this handler.
\* body.sort_order ?? 0: an absent sort_order reaches the store as 0
POST_tasks(activity_id, body_sort_order) ==
  /\ Ready
  /\ next_id.tasks <= MaxTasks
  /\ LET new == auto_sort_order_tasks(
                  [id |-> next_id.tasks, activity_id |-> activity_id,
                   sort_order |-> IF body_sort_order \in {undefined, NULL}
                                  THEN 0 ELSE body_sort_order])
     IN IF \/ activity_id \notin {a.id : a \in activities}
           \/ ~tasks_policy(new)
        THEN /\ response' = Answer("create_task", 500)
             /\ UNCHANGED <<tasks, next_id>>
        ELSE /\ tasks' = tasks \cup {new}
             /\ next_id' = [next_id EXCEPT !.tasks = @ + 1]
             /\ response' = Resp("create_task", 200, activity_id, body_sort_order, <<>>)
  /\ UNCHANGED <<activities, releases, stories, fetch, accounts, auth_uid, now>>

\* storyStatus: a status is written as its position in the enum
\* ['backlog', 'ready', 'in_progress', 'review', 'done']
backlog == 1
done == 5

\* no requireAuth in this handler.
\* release_id: validation.data.release_id ?? null;
\* status: storyStatus.optional().default('backlog'); updated_at: DEFAULT NOW()
POST_stories(bodyOk, task_id, release_id, status) ==
  /\ Ready
  /\ next_id.stories <= MaxStories
  /\ IF ~bodyOk
     THEN /\ response' = Resp("create_story", 400, task_id, release_id, <<>>)
          /\ UNCHANGED <<stories, next_id>>
     ELSE LET new == auto_sort_order_stories(
                       [id |-> next_id.stories, task_id |-> task_id,
                        release_id |-> IF release_id \in {undefined, NULL}
                                       THEN NULL ELSE release_id,
                        status |-> IF status = undefined THEN backlog ELSE status,
                        sort_order |-> NULL, updated_at |-> now])
          IN IF \/ task_id \notin {t.id : t \in tasks}
                \/ (new.release_id # NULL /\ new.release_id \notin {r.id : r \in releases})
                \/ ~stories_policy(new)
             THEN /\ response' = Resp("create_story", 500, task_id, release_id, <<>>)
                  /\ UNCHANGED <<stories, next_id>>
             ELSE /\ stories' = stories \cup {new}
                  /\ next_id' = [next_id EXCEPT !.stories = @ + 1]
                  /\ response' = Resp("create_story", 200, task_id, release_id, <<new.id>>)
  /\ UNCHANGED <<activities, tasks, releases, fetch, accounts, auth_uid, now>>

(***************************************************************************)
(* Foreign keys.  The referential actions are carried out by the store     *)
(* itself and are not filtered by the policies of the caller.              *)
(***************************************************************************)
\* stories.release_id as ON DELETE SET NULL: the stories go to the backlog
stories_release_id_fkey_set_null(rows, release_id) ==
  {IF s.release_id = release_id THEN [s EXCEPT !.release_id = NULL] ELSE s : s \in rows}

\* stories.release_id REFERENCES releases(id) ON DELETE CASCADE
stories_release_id_fkey(rows, release_id) ==
  {s \in rows : s.release_id # release_id}

\* stories.task_id REFERENCES tasks(id) ON DELETE CASCADE
stories_task_id_fkey(rows, task_ids) ==
  {s \in rows : s.task_id \notin task_ids}

\* tasks.activity_id without ON DELETE CASCADE enforced: the tasks stay
tasks_activity_id_fkey_dropped(rows, activity_id) == rows

\* tasks.activity_id REFERENCES activities(id) ON DELETE CASCADE
tasks_activity_id_fkey(rows, activity_id) ==
  {t \in rows : t.activity_id # activity_id}

(***************************************************************************)
(* delete_release(p_release_id): one transaction.                          *)
(* failAt = 0: the store does not fail; 1: it fails at the DELETE FROM     *)
(* stories; 2: it fails at the DELETE FROM releases.  The outcome is the   *)
(* pair of tables and the error code ("none" when there is no error;       *)
(* "22P02" when the argument is no uuid).                                  *)
(***************************************************************************)
\* delete_release as two statements without a transaction: a failure at the
\* second leaves the first applied
delete_release_two_steps(p_release_id, failAt) ==
  LET stories1 == row_security(stories, {s \in stories : s.release_id # p_release_id},
                               stories_policy)
      releases1 == row_security(releases, {r \in releases : r.id # p_release_id},
                                releases_policy)
  IN IF ~isValidUuid(p_release_id)
     THEN [stories |-> stories, releases |-> releases, code |-> "22P02"]
     ELSE IF releases1 = releases
     THEN [stories |-> stories, releases |-> releases, code |-> "P0002"]
     ELSE IF failAt = 1
     THEN [stories |-> stories, releases |-> releases, code |-> "XX000"]
     ELSE IF failAt = 2
     THEN [stories |-> stories1, releases |-> releases, code |-> "XX000"]
     ELSE [stories |-> stories_release_id_fkey(stories1, p_release_id),
           releases |-> releases1, code |-> "none"]

delete_release(p_release_id, failAt) ==
  LET stories1 == row_security(stories, {s \in stories : s.release_id # p_release_id},
                               stories_policy)
      releases1 == row_security(releases, {r \in releases : r.id # p_release_id},
                                releases_policy)
      v_deleted == Cardinality(releases) - Cardinality(releases1)
  IN IF ~isValidUuid(p_release_id)
     THEN [stories |-> stories, releases |-> releases, code |-> "22P02"]
     ELSE IF failAt # 0
     THEN [stories |-> stories, releases |-> releases, code |-> "XX000"]
     ELSE IF v_deleted = 0
     THEN [stories |-> stories, releases |-> releases, code |-> "P0002"]
     ELSE [stories |-> stories_release_id_fkey(stories1, p_release_id),
           releases |-> releases1, code |-> "none"]

(***************************************************************************)
(* DELETE /api/releases/[id]                                               *)
(***************************************************************************)
\* the handler without the test of error.code: every error is a 500
DELETE_release_rpc_any_error(id, failAt) ==
  LET out == delete_release(id, failAt)
  IN /\ Ready
     /\ stories' = out.stories
     /\ releases' = out.releases
     /\ response' = Resp("delete_release", IF out.code = "none" THEN 200 ELSE 500,
                         id, NULL, <<>>)
     /\ UNCHANGED <<activities, tasks, next_id, fetch, accounts, auth_uid, now>>

\* supabase.rpc('delete_release')
DELETE_release_rpc(id, failAt) ==
  LET out == delete_release(id, failAt)
  IN /\ Ready
     /\ stories' = out.stories
     /\ releases' = out.releases
     /\ response' =
          IF out.code = "none" THEN Resp("delete_release", 200, id, NULL, <<>>)
          ELSE IF out.code = "P0002"
          THEN Resp("delete_release", 404, id, NULL, <<>>)
          ELSE Resp("delete_release", 500, id, NULL, <<>>)
     /\ UNCHANGED <<activities, tasks, next_id, fetch, accounts, auth_uid, now>>

\* the row with this id, as the caller's statement finds it: no row when
\* there is none or when the policy hides it
found(rows, id, policy(_)) == {r \in rows : r.id = id /\ policy(r)}

\* supabase.from('releases').delete().eq('id', id).select().single()
DELETE_release(id, failed) ==
  /\ Ready
  /\ IF ~isValidUuid(id)
     THEN /\ response' = Resp("delete_release", 400, id, NULL, <<>>)
          /\ UNCHANGED <<releases, stories>>
     ELSE IF failed
     THEN /\ response' = Resp("delete_release", 500, id, NULL, <<>>)
          /\ UNCHANGED <<releases, stories>>
     ELSE IF found(releases, id, releases_policy) = {}
     THEN /\ response' = Resp("delete_release", 404, id, NULL, <<>>)
          /\ UNCHANGED <<releases, stories>>
     ELSE /\ releases' = {r \in releases : r.id # id}
          /\ stories' = stories_release_id_fkey(stories, id)
          /\ response' = Resp("delete_release", 200, id, NULL, <<>>)
  /\ UNCHANGED <<activities, tasks, next_id, fetch, accounts, auth_uid, now>>

(***************************************************************************)
(* DELETE /api/<entity>/[id]                                               *)
(***************************************************************************)
DELETE_activity(id) ==
  /\ Ready
  /\ IF ~isValidUuid(id)
     THEN /\ response' = Resp("delete_activity", 400, id, NULL, <<>>)
          /\ UNCHANGED <<activities, tasks, stories>>
     ELSE IF found(activities, id, activities_policy) = {}
     THEN /\ response' = Resp("delete_activity", 404, id, NULL, <<>>)
          /\ UNCHANGED <<activities, tasks, stories>>
     ELSE /\ activities' = {a \in activities : a.id # id}
          /\ tasks' = tasks_activity_id_fkey(tasks, id)
          /\ stories' = stories_task_id_fkey(stories,
                          {t.id : t \in tasks \ tasks_activity_id_fkey(tasks, id)})
          /\ response' = Resp("delete_activity", 200, id, NULL, <<>>)
  /\ UNCHANGED <<releases, next_id, fetch, accounts, auth_uid, now>>

\* no isValidUuid: a malformed id is an error of the store; no
\* .select().single(): deleting no row is no error
DELETE_task(id) ==
  /\ Ready
  /\ IF ~isValidUuid(id)
     THEN /\ response' = Resp("delete_task", 500, id, NULL, <<>>)
          /\ UNCHANGED <<tasks, stories>>
     ELSE LET tasks1 == row_security(tasks, {t \in tasks : t.id # id}, tasks_policy)
          IN /\ tasks' = tasks1
             /\ stories' = stories_task_id_fkey(stories, {t.id : t \in tasks \ tasks1})
             /\ response' = Resp("delete_task", 200, id, NULL, <<>>)
  /\ UNCHANGED <<activities, releases, next_id, fetch, accounts, auth_uid, now>>

DELETE_story(id) ==
  /\ Ready
  /\ IF ~isValidUuid(id)
     THEN /\ response' = Resp("delete_story", 400, id, NULL, <<>>)
          /\ UNCHANGED stories
     ELSE IF found(stories, id, stories_policy) = {}
     THEN /\ response' = Resp("delete_story", 404, id, NULL, <<>>)
          /\ UNCHANGED stories
     ELSE /\ stories' = {s \in stories : s.id # id}
          /\ response' = Resp("delete_story", 200, id, NULL, <<>>)
  /\ UNCHANGED <<activities, tasks, releases, next_id, fetch, accounts, auth_uid, now>>

(***************************************************************************)
(* GET /api/stories/[id]                                                   *)
(***************************************************************************)
GET_story(id) ==
  /\ Ready
  /\ response' =
       IF ~isValidUuid(id) THEN Resp("get_story", 400, id, NULL, <<>>)
       ELSE IF found(stories, id, stories_policy) = {}
       THEN Resp("get_story", 404, id, NULL, <<>>)
       ELSE Resp("get_story", 200, id, NULL, <<>>)
  /\ UNCHANGED <<activities, tasks, releases, stories, next_id, fetch, accounts, auth_uid, now>>

(***************************************************************************)
(* StoryMapCanvas: the stories of the cell of a task and a release; the    *)
(* backlog cell of a task when releaseId is null                           *)
(***************************************************************************)
\* a cell holding every story of the task, of whatever release
getStoriesForCell_any_release(sortedStories, taskId, releaseId) ==
  {s \in sortedStories : s.task_id = taskId}

getStoriesForCell(sortedStories, taskId, releaseId) ==
  {s \in sortedStories :
     /\ s.task_id = taskId
     /\ IF releaseId # NULL THEN s.release_id = releaseId ELSE s.release_id = NULL}

(***************************************************************************)
(* PUT /api/<entity>/[id]: partial update.  `other` says whether the body  *)
(* carries one of the fields the model does not hold (name, description,   *)
(* title, ...).  The updated row has to pass the WITH CHECK of the UPDATE  *)
(* policy; a row that does not is an error of the statement.               *)
(***************************************************************************)
\* a schema without the refinement
atLeastOneField_unrefined(values, other) == TRUE

atLeastOneField(values, other) == other \/ \E v \in values : v # undefined

\* every field of the schema written, defined or not
pickDefined_every_key(old, new) == new

\* a field once stored is never overwritten
pickDefined_first_write(old, new) == old

\* pickDefined: a field is written only when the body defines it
pickDefined(old, new) == IF new = undefined THEN old ELSE new

PUT_release(id, sort_order, other) ==
  /\ Ready
  /\ IF ~isValidUuid(id)
     THEN /\ response' = Resp("update_release", 400, id, NULL, <<>>)
          /\ UNCHANGED releases
     ELSE IF ~atLeastOneField({sort_order}, other)
     THEN /\ response' = Resp("update_release", 400, id, NULL, <<>>)
          /\ UNCHANGED releases
     ELSE IF found(releases, id, releases_policy) = {}
     THEN /\ response' = Resp("update_release", 404, id, NULL, <<>>)
          /\ UNCHANGED releases
     ELSE /\ releases' = {IF r.id = id
                          THEN [r EXCEPT !.sort_order = pickDefined(@, sort_order)]
                          ELSE r : r \in releases}
          /\ response' = Resp("update_release", 200, id, NULL, <<>>)
  /\ UNCHANGED <<activities, tasks, stories, next_id, fetch, accounts, auth_uid, now>>

PUT_activity(id, sort_order, other) ==
  /\ Ready
  /\ IF ~isValidUuid(id)
     THEN /\ response' = Resp("update_activity", 400, id, NULL, <<>>)
          /\ UNCHANGED activities
     ELSE IF ~atLeastOneField({sort_order}, other)
     THEN /\ response' = Resp("update_activity", 400, id, NULL, <<>>)
          /\ UNCHANGED activities
     ELSE IF found(activities, id, activities_policy) = {}
     THEN /\ response' = Resp("update_activity", 404, id, NULL, <<>>)
          /\ UNCHANGED activities
     ELSE /\ activities' = {IF a.id = id
                            THEN [a EXCEPT !.sort_order = pickDefined(@, sort_order)]
                            ELSE a : a \in activities}
          /\ response' = Resp("update_activity", 200, id, NULL, <<>>)
  /\ UNCHANGED <<tasks, releases, stories, next_id, fetch, accounts, auth_uid, now>>

\* no isValidUuid and no validateRequest, and every store error (malformed
\* id, no such row, foreign key, policy) is a 500
PUT_task(id, activity_id, sort_order) ==
  /\ Ready
  /\ IF \/ ~isValidUuid(id)
        \/ found(tasks, id, tasks_policy) = {}
        \/ (activity_id # undefined /\ activity_id \notin {a.id : a \in activities})
        \/ \E t \in found(tasks, id, tasks_policy) :
             ~tasks_policy([t EXCEPT !.activity_id = pickDefined(@, activity_id)])
     THEN /\ response' = Resp("update_task", 500, id, NULL, <<>>)
          /\ UNCHANGED tasks
     ELSE /\ tasks' = {IF t.id = id
                       THEN [t EXCEPT !.activity_id = pickDefined(@, activity_id),
                                      !.sort_order = pickDefined(@, sort_order)]
                       ELSE t : t \in tasks}
          /\ response' = Resp("update_task", 200, id, NULL, <<>>)
  /\ UNCHANGED <<activities, releases, stories, next_id, fetch, accounts, auth_uid, now>>

\* updated_at: new Date().toISOString(), the time of the request, which is
\* later than every time stamped before
PUT_story(id, task_id, release_id, status, sort_order, other) ==
  /\ Ready
  /\ IF ~isValidUuid(id)
     THEN /\ response' = Resp("update_story", 400, id, NULL, <<>>)
          /\ UNCHANGED <<stories, now>>
     ELSE IF ~atLeastOneField({task_id, release_id, status, sort_order}, other)
     THEN /\ response' = Resp("update_story", 400, id, NULL, <<>>)
          /\ UNCHANGED <<stories, now>>
     ELSE IF found(stories, id, stories_policy) = {}
     THEN /\ response' = Resp("update_story", 404, id, NULL, <<>>)
          /\ UNCHANGED <<stories, now>>
     ELSE IF \/ (task_id # undefined /\ task_id \notin {t.id : t \in tasks})
             \/ (release_id \notin {undefined, NULL}
                   /\ release_id \notin {r.id : r \in releases})
             \/ \E s \in found(stories, id, stories_policy) :
                  ~stories_policy([s EXCEPT !.task_id = pickDefined(@, task_id)])
     THEN /\ response' = Resp("update_story", 500, id, NULL, <<>>)
          /\ UNCHANGED <<stories, now>>
     ELSE /\ now < MaxTime
          /\ now' = now + 1
          /\ stories' = {IF s.id = id
                         THEN [s EXCEPT !.task_id = pickDefined(@, task_id),
                                        !.release_id = pickDefined(@, release_id),
                                        !.status = pickDefined(@, status),
                                        !.sort_order = pickDefined(@, sort_order),
                                        !.updated_at = now + 1]
                         ELSE s : s \in stories}
          /\ response' = Resp("update_story", 200, id, NULL, <<>>)
  /\ UNCHANGED <<activities, tasks, releases, next_id, fetch, accounts, auth_uid>>

(***************************************************************************)
(* GET /api/story-maps/[id]: Promise.all of independent queries; each      *)
(* query is one statement and sees one committed state of the store, but   *)
(* other requests may commit between two of them.                          *)
(***************************************************************************)
GET_story_map_start(id) ==
  /\ fetch.pc # "reading"
  /\ fetch' = [pc |-> "reading", story_map_id |-> id, got |-> {}, story_maps |-> {},
               stories |-> {}, releases |-> {}]
  /\ UNCHANGED <<activities, tasks, releases, stories, next_id, response, accounts, auth_uid, now>>

\* from('story_maps').select('*').eq('id', id).single()
GET_story_map_map ==
  /\ fetch.pc = "reading"
  /\ "story_maps" \notin fetch.got
  /\ fetch' = [fetch EXCEPT !.got = @ \cup {"story_maps"},
                            !.story_maps = {sm \in story_maps :
                                              /\ sm.id = fetch.story_map_id
                                              /\ is_team_member(sm.team_id)}]
  /\ UNCHANGED <<activities, tasks, releases, stories, next_id, response, accounts, auth_uid, now>>

\* from('activities').select(`*, tasks(*, stories(*))`).eq('story_map_id', id)
GET_story_map_activities ==
  /\ fetch.pc = "reading"
  /\ "activities" \notin fetch.got
  /\ LET as == {a.id : a \in {x \in activities : /\ x.story_map_id = fetch.story_map_id
                                                 /\ activities_policy(x)}}
         ts == {t.id : t \in {x \in tasks : x.activity_id \in as /\ tasks_policy(x)}}
     IN fetch' = [fetch EXCEPT !.got = @ \cup {"activities"},
                               !.stories = {s \in stories : /\ s.task_id \in ts
                                                            /\ stories_policy(s)}]
  /\ UNCHANGED <<activities, tasks, releases, stories, next_id, response, accounts, auth_uid, now>>

\* from('releases').select('*').eq('story_map_id', id)
GET_story_map_releases ==
  /\ fetch.pc = "reading"
  /\ "releases" \notin fetch.got
  /\ fetch' = [fetch EXCEPT !.got = @ \cup {"releases"},
                            !.releases = {r \in releases :
                                            /\ r.story_map_id = fetch.story_map_id
                                            /\ releases_policy(r)}]
  /\ UNCHANGED <<activities, tasks, releases, stories, next_id, response, accounts, auth_uid, now>>

\* notFoundResponse('Story map') when the map query found no row, else
\* NextResponse.json(fullMap)
GET_story_map_respond ==
  /\ Ready
  /\ fetch.pc = "reading"
  /\ fetch.got = {"story_maps", "activities", "releases"}
  /\ fetch' = [fetch EXCEPT !.pc = IF fetch.story_maps = {} THEN "not found" ELSE "done"]
  /\ response' = Resp("get_story_map", IF fetch.story_maps = {} THEN 404 ELSE 200,
                      fetch.story_map_id, NULL, <<>>)
  /\ UNCHANGED <<activities, tasks, releases, stories, next_id, accounts, auth_uid, now>>

\* return NextResponse.json(...): the response leaves the server
Deliver ==
  /\ response # NoResponse
  /\ response' = NoResponse
  /\ UNCHANGED <<activities, tasks, releases, stories, next_id, fetch, accounts, auth_uid, now>>

(***************************************************************************)
(* Teams.  A team row is [id, name], a membership [team_id, user_id,       *)
(* role], an invite [id, team_id, email, accepted_at]; the email of an     *)
(* invite is written as the id of the user it belongs to.                  *)
(***************************************************************************)
\* "Team members can view their teams"
teams_select_policy(row) == is_team_member(row.id)

\* "Team owners can update their teams"
teams_update_policy(row) == is_team_owner(row.id)

\* "Authenticated users can create teams": TO authenticated WITH CHECK (true)
teams_insert_policy(row) == auth_uid # NULL

\* "Team owners can delete their teams"
teams_delete_policy(row) == is_team_owner(row.id)

\* "Team members can view invites"
team_invites_select_policy(row) == is_team_member(row.team_id)

\* "Team owners can create invites": TO authenticated
team_invites_insert_policy(row) == auth_uid # NULL /\ is_team_owner(row.team_id)

\* "Team owners can update invites"
team_invites_update_policy(row) == is_team_owner(row.team_id)

\* "Team owners can delete invites"
team_invites_delete_policy(row) == is_team_owner(row.team_id)

\* "Team owners can add members or users can join via invite".  The
\* subquery on team_invites runs as the caller, so it sees the invites the
\* SELECT policy of team_invites shows them.
team_members_insert_policy(row) ==
  /\ auth_uid # NULL
  /\ \/ is_team_owner(row.team_id)
     \/ (row.user_id = auth_uid /\ row.role = "owner")
     \/ /\ row.user_id = auth_uid
        /\ row.role = "member"
        /\ \E i \in team_invites :
             /\ team_invites_select_policy(i)
             /\ i.team_id = row.team_id /\ i.email = auth_uid /\ i.accepted_at = NULL

\* "Team owners can remove members or self-remove"
team_members_delete_policy(row) == is_team_owner(row.team_id) \/ row.user_id = auth_uid

\* team_members.team_id REFERENCES teams(id) ON DELETE CASCADE
team_members_team_id_fkey(rows, team_ids) == {m \in rows : m.team_id \notin team_ids}

\* team_invites.team_id REFERENCES teams(id) ON DELETE CASCADE
team_invites_team_id_fkey(rows, team_ids) == {i \in rows : i.team_id \notin team_ids}

\* story_maps.team_id REFERENCES teams(id) ON DELETE CASCADE
story_maps_team_id_fkey(rows, team_ids) == {sm \in rows : sm.team_id \notin team_ids}

\* activities.story_map_id and releases.story_map_id
\* REFERENCES story_maps(id) ON DELETE CASCADE
story_map_id_fkey(rows, story_map_ids) == {r \in rows : r.story_map_id \notin story_map_ids}

\* handle_new_user without the INSERT INTO team_members
handle_new_user_no_owner(new_id) ==
  /\ Ready
  /\ new_id \notin users
  /\ users' = users \cup {new_id}
  /\ teams' = teams \cup {[id |-> next_id.teams, name |-> "personal"]}
  /\ next_id' = [next_id EXCEPT !.teams = @ + 1]
  /\ UNCHANGED <<tables, response, fetch, story_maps, team_members, team_invites, auth_uid, now>>

\* AFTER INSERT ON auth.users: the personal team and the membership of its
\* owner, in the transaction of the signup (SECURITY DEFINER: no policy
\* applies)
handle_new_user(new_id) ==
  /\ Ready
  /\ new_id \notin users
  /\ users' = users \cup {new_id}
  /\ teams' = teams \cup {[id |-> next_id.teams, name |-> "personal"]}
  /\ team_members' = team_members \cup
                       {[team_id |-> next_id.teams, user_id |-> new_id, role |-> "owner"]}
  /\ next_id' = [next_id EXCEPT !.teams = @ + 1]
  /\ UNCHANGED <<tables, response, fetch, story_maps, team_invites, auth_uid, now>>

\* the browser holds the session of user u from now on
signIn(u) ==
  /\ Ready
  /\ u \in users
  /\ auth_uid # u
  /\ auth_uid' = u
  /\ UNCHANGED <<tables, next_id, response, fetch, accounts, now>>

\* proxy.ts, run for every request before its handler: "next" when the
\* request goes on to the handler, else the path it is redirected to
proxy(isAuthPage, isApiRoute) ==
  LET user == auth_uid
  IN IF isApiRoute THEN "next"
     ELSE IF user = NULL /\ ~isAuthPage THEN "/auth/login"
     ELSE IF user # NULL /\ isAuthPage THEN "/"
     ELSE "next"

\* supabase.auth.signOut(), then the redirect to the login page
handleLogout ==
  /\ auth_uid' = NULL
  /\ response' = Resp("logout", 307, NULL, NULL, <<"/auth/login">>)

\* a request of /auth/logout, the "Sign out" link of the application shell
GET_auth_logout ==
  /\ Ready
  /\ IF proxy(TRUE, FALSE) # "next"
     THEN /\ response' = Resp("logout", 307, NULL, NULL, <<proxy(TRUE, FALSE)>>)
          /\ UNCHANGED auth_uid
     ELSE handleLogout
  /\ UNCHANGED <<tables, next_id, fetch, accounts, now>>

(***************************************************************************)
(* POST /api/teams: three statements, each its own transaction.  failAt    *)
(* = 0: the store does not fail; k: it fails at the k-th statement.        *)
(*   1. insert(team).select().single(): the new row has to pass the INSERT *)
(*      policy and, for the RETURNING of select(), the SELECT policy;      *)
(*   2. insert(membership of the caller as owner), without select();       *)
(*   3. when 2 failed: delete().eq('id', team.id), under the DELETE        *)
(*      policy.                                                            *)
(***************************************************************************)
POST_teams(bodyOk, name, failAt) ==
  LET team == [id |-> next_id.teams, name |-> name]
      member == [team_id |-> team.id, user_id |-> auth_uid, role |-> "owner"]
      teamError == \/ failAt = 1
                   \/ ~teams_insert_policy(team)
                   \/ ~teams_select_policy(team)
      memberError == failAt = 2 \/ ~team_members_insert_policy(member)
      rollback == IF failAt = 3 THEN teams \cup {team}
                  ELSE row_security(teams \cup {team}, teams, teams_delete_policy)
  IN /\ Ready
     /\ next_id.teams <= MaxTeams
     /\ IF ~requireAuth
        THEN /\ response' = Resp("create_team", 401, NULL, NULL, <<>>)
             /\ UNCHANGED <<teams, team_members, next_id>>
        ELSE IF ~bodyOk
        THEN /\ response' = Resp("create_team", 400, NULL, NULL, <<>>)
             /\ UNCHANGED <<teams, team_members, next_id>>
        ELSE IF teamError
        THEN /\ response' = Resp("create_team", 500, NULL, NULL, <<>>)
             /\ UNCHANGED <<teams, team_members, next_id>>
        ELSE IF memberError
        THEN /\ teams' = rollback
             /\ next_id' = [next_id EXCEPT !.teams = @ + 1]
             /\ response' = Resp("create_team", 500, team.id, NULL, <<>>)
             /\ UNCHANGED team_members
        ELSE /\ teams' = teams \cup {team}
             /\ team_members' = team_members \cup {member}
             /\ next_id' = [next_id EXCEPT !.teams = @ + 1]
             /\ response' = Resp("create_team", 201, team.id, NULL, <<>>)
     /\ UNCHANGED <<tables, fetch, story_maps, users, team_invites, auth_uid, now>>

(***************************************************************************)
(* PUT /api/teams/[id]                                                     *)
(***************************************************************************)
PUT_team(id, bodyOk, name) ==
  /\ Ready
  /\ IF ~requireAuth
     THEN /\ response' = Resp("update_team", 401, id, NULL, <<>>)
          /\ UNCHANGED teams
     ELSE IF ~isValidUuid(id)
     THEN /\ response' = Resp("update_team", 400, id, NULL, <<>>)
          /\ UNCHANGED teams
     ELSE IF ~bodyOk
     THEN /\ response' = Resp("update_team", 400, id, NULL, <<>>)
          /\ UNCHANGED teams
     ELSE IF found(teams, id, teams_update_policy) = {}
     THEN /\ response' = Resp("update_team", 404, id, NULL, <<>>)
          /\ UNCHANGED teams
     ELSE /\ teams' = {IF t.id = id THEN [t EXCEPT !.name = name] ELSE t : t \in teams}
          /\ response' = Resp("update_team", 200, id, NULL, <<>>)
  /\ UNCHANGED <<tables, next_id, fetch, story_maps, users, team_members, team_invites,
                 auth_uid, now>>

(***************************************************************************)
(* DELETE /api/teams/[id]: delete().eq('id', id) without select(), so      *)
(* deleting no row is no error.  The rows of the team go with it.          *)
(***************************************************************************)
\* the DELETE policy of teams asking for membership only
teams_delete_by_member(id) ==
  row_security(teams, {t \in teams : t.id # id}, teams_select_policy)

teams_delete(id) ==
  row_security(teams, {t \in teams : t.id # id}, teams_delete_policy)

DELETE_team(id) ==
  /\ Ready
  /\ IF ~requireAuth
     THEN /\ response' = Resp("delete_team", 401, id, NULL, <<>>)
          /\ UNCHANGED <<tables, accounts>>
     ELSE IF ~isValidUuid(id)
     THEN /\ response' = Resp("delete_team", 400, id, NULL, <<>>)
          /\ UNCHANGED <<tables, accounts>>
     ELSE LET deleted == {t.id : t \in teams \ teams_delete(id)}
              maps == {sm.id : sm \in story_maps \ story_maps_team_id_fkey(story_maps, deleted)}
              acts == {a.id : a \in activities \ story_map_id_fkey(activities, maps)}
              tsks == {t.id : t \in {x \in tasks : x.activity_id \in acts}}
          IN /\ teams' = teams_delete(id)
             /\ team_members' = team_members_team_id_fkey(team_members, deleted)
             /\ team_invites' = team_invites_team_id_fkey(team_invites, deleted)
             /\ story_maps' = story_maps_team_id_fkey(story_maps, deleted)
             /\ activities' = story_map_id_fkey(activities, maps)
             /\ releases' = story_map_id_fkey(releases, maps)
             /\ tasks' = {t \in tasks : t.activity_id \notin acts}
             /\ stories' = {s \in stories :
                              /\ s.task_id \notin tsks
                              /\ s.release_id \notin
                                   {r.id : r \in releases \ story_map_id_fkey(releases, maps)}}
             /\ response' = Resp("delete_team", 200, id, NULL, <<>>)
             /\ UNCHANGED users
  /\ UNCHANGED <<next_id, fetch, auth_uid, now>>

(***************************************************************************)
(* remove_team_member(p_team_id, p_user_id): SECURITY DEFINER.  The        *)
(* outcome is the table, the error of the returned JSON ("none" when it is *)
(* {success: true}) and whether the function raised.                       *)
(***************************************************************************)
\* remove_team_member without the test of the caller
remove_team_member_by_anyone(p_team_id, p_user_id) ==
  LET target == {m \in team_members : m.team_id = p_team_id /\ m.user_id = p_user_id}
  IN IF target = {}
     THEN [team_members |-> team_members, error |-> "Member not found", raised |-> FALSE]
     ELSE IF \E m \in target : m.role = "owner"
     THEN [team_members |-> team_members, error |-> "Cannot remove team owner", raised |-> FALSE]
     ELSE [team_members |-> team_members \ target, error |-> "none", raised |-> FALSE]

\* v_caller_id != p_user_id is NULL, not true, when v_caller_id is NULL
remove_team_member(p_team_id, p_user_id) ==
  LET v_caller_id == auth_uid
      target == {m \in team_members : m.team_id = p_team_id /\ m.user_id = p_user_id}
  IN IF target = {}
     THEN [team_members |-> team_members, error |-> "Member not found", raised |-> FALSE]
     ELSE IF \E m \in target : m.role = "owner"
     THEN [team_members |-> team_members, error |-> "Cannot remove team owner", raised |-> FALSE]
     ELSE IF /\ ~ \E m \in team_members :
                    m.team_id = p_team_id /\ m.user_id = v_caller_id /\ m.role = "owner"
             /\ v_caller_id # NULL
             /\ v_caller_id # p_user_id
     THEN [team_members |-> team_members, error |-> "none", raised |-> TRUE]
     ELSE [team_members |-> team_members \ target, error |-> "none", raised |-> FALSE]

\* DELETE /api/teams/[id]/members/[userId]
DELETE_member(id, userId) ==
  /\ Ready
  /\ IF ~requireAuth
     THEN /\ response' = Resp("remove_member", 401, id, userId, <<>>)
          /\ UNCHANGED team_members
     ELSE IF ~isValidUuid(id) \/ ~isValidUuid(userId)
     THEN /\ response' = Resp("remove_member", 400, id, userId, <<>>)
          /\ UNCHANGED team_members
     ELSE LET data == remove_team_member(id, userId)
          IN /\ team_members' = data.team_members
             /\ response' =
                  IF data.raised THEN Resp("remove_member", 500, id, userId, <<>>)
                  ELSE IF data.error # "none"
                  THEN Resp("remove_member", 400, id, userId, <<data.error>>)
                  ELSE Resp("remove_member", 200, id, userId, <<>>)
  /\ UNCHANGED <<tables, next_id, fetch, story_maps, users, teams, team_invites, auth_uid, now>>

\* supabase.rpc('remove_team_member') from a client of the store, with or
\* without a session: the function is in the schema the store's API exposes
remove_team_member_rpc(p_team_id, p_user_id) ==
  LET data == remove_team_member(p_team_id, p_user_id)
  IN /\ Ready
     /\ team_members' = data.team_members
     /\ response' =
          IF data.raised THEN Resp("rpc_remove_member", 400, p_team_id, p_user_id, <<>>)
          ELSE IF data.error # "none"
          THEN Resp("rpc_remove_member", 200, p_team_id, p_user_id, <<data.error>>)
          ELSE Resp("rpc_remove_member", 200, p_team_id, p_user_id, <<>>)
     /\ UNCHANGED <<tables, next_id, fetch, story_maps, users, teams, team_invites, auth_uid, now>>

(***************************************************************************)
(* Invites.  An email address is the id of the user it belongs to, so      *)
(* LOWER(email) = LOWER(the caller's email) is email = auth_uid.            *)
(***************************************************************************)

\* get_team_members (SECURITY DEFINER): raises 'Not authorized' for a caller
\* who is not a member, and the handler ignores the error: data is null
get_team_members(p_team_id) ==
  IF is_team_member(p_team_id)
  THEN {m.user_id : m \in {x \in team_members : x.team_id = p_team_id}}
  ELSE {}

\* the outcomes of auth.admin.inviteUserByEmail the handler tells apart:
\* an error, a new user (the signup trigger runs), a user who exists
InviteOutcomes == {"error", "new", "exists"}

(***************************************************************************)
(* POST /api/teams/[id]/invites.  failAt = 0: the store does not fail;     *)
(* k: it fails at the k-th writing statement.                              *)
(*   1. insert(invite).select().single(): INSERT and SELECT policy, the    *)
(*      foreign key on teams and UNIQUE(team_id, email);                   *)
(*   2. when inviteUserByEmail failed: delete().eq('id', invite.id), its   *)
(*      result unchecked;                                                  *)
(*   3. when the user exists: insert(membership as member);                *)
(*   4. update accepted_at, its result unchecked.                          *)
(***************************************************************************)
POST_invites(id, bodyOk, email, invited, failAt) ==
  LET invite == [id |-> next_id.invites, team_id |-> id, email |-> email,
                 accepted_at |-> NULL]
      existingMember == email \in get_team_members(id)
      existingInvite == \E i \in team_invites :
                          /\ team_invites_select_policy(i)
                          /\ i.team_id = id /\ i.email = email /\ i.accepted_at = NULL
      inviteError == \/ failAt = 1
                     \/ ~team_invites_insert_policy(invite)
                     \/ ~team_invites_select_policy(invite)
                     \/ id \notin {t.id : t \in teams}
                     \/ \E i \in team_invites : i.team_id = id /\ i.email = email
      rollback == IF failAt = 2 THEN team_invites \cup {invite}
                  ELSE row_security(team_invites \cup {invite}, team_invites,
                                    team_invites_delete_policy)
      member == [team_id |-> id, user_id |-> email, role |-> "member"]
      memberError == \/ failAt = 3
                     \/ ~team_members_insert_policy(member)
                     \/ \E m \in team_members : m.team_id = id /\ m.user_id = email
      accepted == IF failAt = 4 THEN team_invites \cup {invite}
                  ELSE row_security(team_invites \cup {invite},
                                    team_invites \cup {[invite EXCEPT !.accepted_at = now]},
                                    team_invites_update_policy)
      created == [next_id EXCEPT !.invites = @ + 1]
  IN /\ Ready
     /\ next_id.invites <= MaxInvites
     /\ invited = "exists" => email \in users
     /\ invited = "new" => email \notin users /\ next_id.teams <= MaxTeams
     /\ IF ~requireAuth
        THEN /\ response' = Resp("create_invite", 401, id, email, <<>>)
             /\ UNCHANGED <<users, teams, team_members, team_invites, next_id>>
        ELSE IF ~isValidUuid(id) \/ ~bodyOk
        THEN /\ response' = Resp("create_invite", 400, id, email, <<>>)
             /\ UNCHANGED <<users, teams, team_members, team_invites, next_id>>
        ELSE IF existingMember
        THEN /\ response' = Resp("create_invite", 400, id, email,
                                 <<"User is already a team member">>)
             /\ UNCHANGED <<users, teams, team_members, team_invites, next_id>>
        ELSE IF existingInvite
        THEN /\ response' = Resp("create_invite", 400, id, email,
                                 <<"Invite already pending for this email">>)
             /\ UNCHANGED <<users, teams, team_members, team_invites, next_id>>
        ELSE IF inviteError
        THEN /\ response' = Resp("create_invite", 500, id, email,
                                 <<"Failed to create invite">>)
             /\ UNCHANGED <<users, teams, team_members, team_invites, next_id>>
        ELSE IF invited = "error"
        THEN /\ team_invites' = rollback
             /\ next_id' = created
             /\ response' = Resp("create_invite", 500, id, email,
                                 <<"Failed to send invite">>)
             /\ UNCHANGED <<users, teams, team_members>>
        ELSE IF invited = "new"
        THEN /\ team_invites' = team_invites \cup {invite}
             /\ users' = users \cup {email}
             /\ teams' = teams \cup {[id |-> next_id.teams, name |-> "personal"]}
             /\ team_members' = team_members \cup
                  {[team_id |-> next_id.teams, user_id |-> email, role |-> "owner"]}
             /\ next_id' = [created EXCEPT !.teams = @ + 1]
             /\ response' = Resp("create_invite", 201, id, email, <<"invited">>)
        ELSE IF memberError
        THEN /\ team_invites' = team_invites \cup {invite}
             /\ next_id' = created
             /\ response' = Resp("create_invite", 500, id, email,
                                 <<"Failed to add member">>)
             /\ UNCHANGED <<users, teams, team_members>>
        ELSE /\ team_members' = team_members \cup {member}
             /\ team_invites' = accepted
             /\ next_id' = created
             /\ response' = Resp("create_invite", 201, id, email, <<"added">>)
             /\ UNCHANGED <<users, teams>>
     /\ UNCHANGED <<tables, fetch, story_maps, auth_uid, now>>

\* DELETE /api/teams/[id]/invites/[inviteId]: delete() without select(), so
\* a delete of no row is a success
DELETE_invite(id, inviteId) ==
  /\ Ready
  /\ IF ~requireAuth
     THEN /\ response' = Resp("cancel_invite", 401, id, inviteId, <<>>)
          /\ UNCHANGED team_invites
     ELSE IF ~isValidUuid(id) \/ ~isValidUuid(inviteId)
     THEN /\ response' = Resp("cancel_invite", 400, id, inviteId, <<>>)
          /\ UNCHANGED team_invites
     ELSE /\ team_invites' =
               row_security(team_invites,
                            {i \in team_invites : ~(i.id = inviteId /\ i.team_id = id)},
                            team_invites_delete_policy)
          /\ response' = Resp("cancel_invite", 200, id, inviteId, <<>>)
  /\ UNCHANGED <<tables, next_id, fetch, story_maps, users, teams, team_members, auth_uid, now>>

(***************************************************************************)
(* /invite/accept.  inviteId is user_metadata.invite_id, NULL when there   *)
(* is none.  The page reads the invite, inserts the membership and marks   *)
(* the invite accepted with the session of the invited user, so each       *)
(* statement is under that user's policies.  A duplicate membership        *)
(* (23505) is the one insert error the page goes on from.                  *)
(***************************************************************************)
AcceptInvitePage(inviteId) ==
  LET user == auth_uid
      invite == {i \in team_invites :
                   /\ team_invites_select_policy(i)
                   /\ i.id = inviteId /\ i.accepted_at = NULL}
      redirect(url) == Resp("accept_invite", 307, inviteId, NULL, <<url>>)
  IN /\ Ready
     /\ IF user = NULL
        THEN /\ response' = redirect("/auth/login")
             /\ UNCHANGED <<team_members, team_invites>>
        ELSE IF inviteId = NULL \/ invite = {} \/ \E i \in invite : i.email # user
        THEN /\ response' = redirect("/")
             /\ UNCHANGED <<team_members, team_invites>>
        ELSE LET i == CHOOSE x \in invite : TRUE
                 member == [team_id |-> i.team_id, user_id |-> user, role |-> "member"]
                 duplicate == \E m \in team_members :
                                m.team_id = i.team_id /\ m.user_id = user
             IN IF ~team_members_insert_policy(member)
                THEN /\ response' = redirect("/")
                     /\ UNCHANGED <<team_members, team_invites>>
                ELSE /\ team_members' = IF duplicate THEN team_members
                                        ELSE team_members \cup {member}
                     /\ team_invites' =
                          row_security(team_invites,
                                       (team_invites \ {i}) \cup
                                         {[i EXCEPT !.accepted_at = now]},
                                       team_invites_update_policy)
                     /\ response' = redirect("/")
     /\ UNCHANGED <<tables, next_id, fetch, story_maps, users, teams, auth_uid, now>>

(***************************************************************************)
(* The store operations a signed-in user has on team_members through the   *)
(* store's own API, with no handler in between: only the policies and the  *)
(* constraints of the table decide.                                        *)
(***************************************************************************)
Roles == {"owner", "member"}

\* insert of the caller's own membership
team_members_insert(team_id, role) ==
  LET row == [team_id |-> team_id, user_id |-> auth_uid, role |-> role]
      error == \/ ~team_members_insert_policy(row)
               \/ team_id \notin {t.id : t \in teams}
               \/ \E m \in team_members : m.team_id = team_id /\ m.user_id = auth_uid
  IN /\ Ready
     /\ auth_uid # NULL
     /\ IF error
        THEN /\ response' = Resp("insert_member", 403, team_id, auth_uid, <<role>>)
             /\ UNCHANGED team_members
        ELSE /\ team_members' = team_members \cup {row}
             /\ response' = Resp("insert_member", 201, team_id, auth_uid, <<role>>)
     /\ UNCHANGED <<tables, next_id, fetch, story_maps, users, teams, team_invites, auth_uid, now>>

\* delete of the caller's own membership
team_members_delete(team_id) ==
  /\ Ready
  /\ auth_uid # NULL
  /\ team_members' =
       {m \in team_members : ~ /\ m.team_id = team_id /\ m.user_id = auth_uid
                                /\ team_members_delete_policy(m)}
  /\ response' = Resp("delete_member", 204, team_id, auth_uid, <<>>)
  /\ UNCHANGED <<tables, next_id, fetch, story_maps, users, teams, team_invites, auth_uid, now>>

(***************************************************************************)
(* Specifications                                                          *)
(*                                                                         *)
(* Spec is the whole store from the empty database.  The other             *)
(* specifications are Spec restricted to the handlers of one part of the   *)
(* store, each started in a state the whole system reaches: the tables a   *)
(* part does not touch keep their rows.                                    *)
(***************************************************************************)
BodySortOrders == {undefined} \cup 0..MaxSortOrder
BodyStatuses == {undefined, done}
TeamNames == {"personal", "renamed"}
\* the id of a path: the id of a row, of no row, or no uuid at all
PathIds(ids) == ids \cup {malformed}

Next ==
  \/ Deliver
  \/ \E u \in Users : handle_new_user(u)
  \/ \E u \in Users : signIn(u)
  \/ GET_auth_logout
  \/ \E m \in StoryMaps, o \in OrderLists(ReleaseIds), f \in BOOLEAN :
       PUT_releases(m, o, f)
  \/ \E m \in StoryMaps, o \in OrderLists(ActivityIds), f \in BOOLEAN :
       PUT_activities(m, o, f)
  \/ \E p \in ActivityIds, o \in OrderLists(TaskIds), f \in BOOLEAN :
       PUT_tasks(p, o, f)
  \/ \E t \in TaskIds, r \in ReleaseIds \cup {NULL}, o \in OrderLists(StoryIds), f \in BOOLEAN :
       PUT_stories(t, r, o, f)
  \/ \E b \in BOOLEAN, m \in StoryMaps : POST_releases(b, m)
  \/ \E b \in BOOLEAN, m \in StoryMaps : POST_activities(b, m)
  \/ \E p \in ActivityIds, s \in BodySortOrders : POST_tasks(p, s)
  \/ \E b \in BOOLEAN, t \in TaskIds, r \in ReleaseIds \cup {NULL, undefined},
        st \in BodyStatuses :
       POST_stories(b, t, r, st)
  \/ \E id \in PathIds(ReleaseIds), s \in BodySortOrders, o \in BOOLEAN :
       PUT_release(id, s, o)
  \/ \E id \in PathIds(ActivityIds), s \in BodySortOrders, o \in BOOLEAN :
       PUT_activity(id, s, o)
  \/ \E id \in PathIds(TaskIds), p \in ActivityIds \cup {undefined}, s \in BodySortOrders :
       /\ (p # undefined \/ s # undefined)
       /\ PUT_task(id, p, s)
  \/ \E id \in PathIds(StoryIds), t \in TaskIds \cup {undefined},
        r \in ReleaseIds \cup {NULL, undefined}, st \in BodyStatuses,
        s \in BodySortOrders, o \in BOOLEAN :
       PUT_story(id, t, r, st, s, o)
  \/ \E id \in PathIds(ReleaseIds), f \in 0..2 : DELETE_release_rpc(id, f)
  \/ \E id \in PathIds(ReleaseIds), f \in BOOLEAN : DELETE_release(id, f)
  \/ \E id \in PathIds(ActivityIds) : DELETE_activity(id)
  \/ \E id \in PathIds(TaskIds) : DELETE_task(id)
  \/ \E id \in PathIds(StoryIds) : DELETE_story(id)
  \/ \E id \in PathIds(StoryIds) : GET_story(id)
  \/ \E m \in StoryMaps : GET_story_map_start(m)
  \/ GET_story_map_map
  \/ GET_story_map_activities
  \/ GET_story_map_releases
  \/ GET_story_map_respond
  \/ \E b \in BOOLEAN, n \in TeamNames, f \in 0..3 : POST_teams(b, n, f)
  \/ \E id \in PathIds(TeamIds), b \in BOOLEAN, n \in TeamNames : PUT_team(id, b, n)
  \/ \E id \in PathIds(TeamIds) : DELETE_team(id)
  \/ \E id \in PathIds(TeamIds), u \in PathIds(Users) : DELETE_member(id, u)
  \/ \E id \in PathIds(TeamIds), b \in BOOLEAN, e \in Users, i \in InviteOutcomes, f \in 0..4 :
       POST_invites(id, b, e, i, f)
  \/ \E id \in PathIds(TeamIds), i \in PathIds(InviteIds) : DELETE_invite(id, i)
  \/ \E i \in InviteIds \cup {NULL} : AcceptInvitePage(i)
  \/ \E t \in TeamIds, r \in Roles : team_members_insert(t, r)
  \/ \E t \in TeamIds : team_members_delete(t)
  \/ \E t \in TeamIds, u \in Users : remove_team_member_rpc(t, u)

Spec == Init /\ [][Next]_vars

\* Cells: creating, updating and deleting releases and stories under an
\* existing backbone of one activity with two tasks.
InitCells ==
  /\ activities = {[id |-> 1, story_map_id |-> 1, sort_order |-> 0]}
  /\ tasks = {[id |-> 1, activity_id |-> 1, sort_order |-> 0],
              [id |-> 2, activity_id |-> 1, sort_order |-> 1]}
  /\ releases = {}
  /\ stories = {}
  /\ next_id = [activities |-> 2, tasks |-> 3, releases |-> 1, stories |-> 1, teams |-> 3, invites |-> 1]
  /\ response = NoResponse
  /\ fetch = Idle
  /\ Accounts
  /\ auth_uid \in Sessions

NextCells ==
  \/ Deliver
  \/ \E b \in BOOLEAN, m \in StoryMaps : POST_releases(b, m)
  \/ \E b \in BOOLEAN, t \in TaskIds, r \in ReleaseIds \cup {NULL, undefined},
        st \in BodyStatuses :
       POST_stories(b, t, r, st)
  \/ \E id \in ReleaseIds, s \in BodySortOrders, o \in BOOLEAN : PUT_release(id, s, o)
  \/ \E id \in StoryIds, t \in TaskIds \cup {undefined},
        r \in ReleaseIds \cup {NULL, undefined}, st \in BodyStatuses,
        s \in BodySortOrders, o \in BOOLEAN :
       PUT_story(id, t, r, st, s, o)
  \/ \E id \in ReleaseIds, f \in 0..2 : DELETE_release_rpc(id, f)
  \/ \E id \in ReleaseIds, f \in BOOLEAN : DELETE_release(id, f)
  \/ \E id \in StoryIds : DELETE_story(id)

SpecCells == InitCells /\ [][NextCells]_vars

\* Backbone: creating, updating and deleting activities and tasks, from the
\* empty database.
NextBackbone ==
  \/ Deliver
  \/ \E b \in BOOLEAN, m \in StoryMaps : POST_activities(b, m)
  \/ \E p \in ActivityIds, s \in BodySortOrders : POST_tasks(p, s)
  \/ \E id \in PathIds(ActivityIds), s \in BodySortOrders, o \in BOOLEAN :
       PUT_activity(id, s, o)
  \/ \E id \in PathIds(TaskIds), p \in ActivityIds \cup {undefined},
        s \in BodySortOrders :
       /\ (p # undefined \/ s # undefined)
       /\ PUT_task(id, p, s)
  \/ \E id \in PathIds(ActivityIds) : DELETE_activity(id)
  \/ \E id \in PathIds(TaskIds) : DELETE_task(id)

SpecBackbone == Init /\ [][NextBackbone]_vars

\* Reorder: the four bulk reorder endpoints over a populated store.  Each
\* initial state populates one table with two members of one sibling group
\* and one row of another group, and the parents those rows need; the order
\* lists range over the ids of the table, so they name members, rows of
\* other groups, ids twice, and ids of no row.  The parents have ids of
\* their own, which no order list names.
FixtureIds == {1, 2, 3}
FixtureParents == {4, 5}

InitReorder ==
  /\ \/ /\ activities = {[id |-> 1, story_map_id |-> 1, sort_order |-> 0],
                         [id |-> 2, story_map_id |-> 1, sort_order |-> 1],
                         [id |-> 3, story_map_id |-> 2, sort_order |-> 0]}
        /\ tasks = {}
        /\ releases = {}
        /\ stories = {}
        /\ next_id = [activities |-> 4, tasks |-> 1, releases |-> 1, stories |-> 1, teams |-> 3, invites |-> 1]
     \/ /\ activities = {[id |-> 4, story_map_id |-> 1, sort_order |-> 0],
                         [id |-> 5, story_map_id |-> 1, sort_order |-> 1]}
        /\ tasks = {[id |-> 1, activity_id |-> 4, sort_order |-> 0],
                    [id |-> 2, activity_id |-> 4, sort_order |-> 1],
                    [id |-> 3, activity_id |-> 5, sort_order |-> 0]}
        /\ releases = {}
        /\ stories = {}
        /\ next_id = [activities |-> 6, tasks |-> 4, releases |-> 1, stories |-> 1, teams |-> 3, invites |-> 1]
     \/ /\ activities = {}
        /\ tasks = {}
        /\ releases = {[id |-> 1, story_map_id |-> 1, sort_order |-> 0],
                       [id |-> 2, story_map_id |-> 1, sort_order |-> 1],
                       [id |-> 3, story_map_id |-> 2, sort_order |-> 0]}
        /\ stories = {}
        /\ next_id = [activities |-> 1, tasks |-> 1, releases |-> 4, stories |-> 1, teams |-> 3, invites |-> 1]
     \/ /\ activities = {[id |-> 4, story_map_id |-> 1, sort_order |-> 0]}
        /\ tasks = {[id |-> 4, activity_id |-> 4, sort_order |-> 0]}
        /\ releases = {[id |-> 4, story_map_id |-> 1, sort_order |-> 0]}
        /\ stories = {[id |-> 1, task_id |-> 4, release_id |-> 4, sort_order |-> 0,
                       status |-> backlog, updated_at |-> 0],
                      [id |-> 2, task_id |-> 4, release_id |-> 4, sort_order |-> 1,
                       status |-> backlog, updated_at |-> 0],
                      [id |-> 3, task_id |-> 4, release_id |-> NULL, sort_order |-> 0,
                       status |-> backlog, updated_at |-> 0]}
        /\ next_id = [activities |-> 5, tasks |-> 5, releases |-> 5, stories |-> 4, teams |-> 3, invites |-> 1]
  /\ response = NoResponse
  /\ fetch = Idle
  /\ Accounts
  /\ auth_uid \in Sessions

NextReorder ==
  \/ Deliver
  \/ \E m \in StoryMaps, o \in OrderLists(FixtureIds), f \in BOOLEAN :
       PUT_releases(m, o, f)
  \/ \E m \in StoryMaps, o \in OrderLists(FixtureIds), f \in BOOLEAN :
       PUT_activities(m, o, f)
  \/ \E p \in FixtureParents, o \in OrderLists(FixtureIds), f \in BOOLEAN :
       PUT_tasks(p, o, f)
  \/ \E t \in FixtureParents, r \in FixtureParents \cup {NULL},
        o \in OrderLists(FixtureIds), f \in BOOLEAN :
       PUT_stories(t, r, o, f)

SpecReorder == InitReorder /\ [][NextReorder]_vars

\* Fetch: the full story-map fetch running while releases are deleted.
\* Every release of the initial store holds a story, nothing but a release
\* deletion removes a row, and release 3 never exists.
InitFetch ==
  /\ activities = {[id |-> 1, story_map_id |-> 1, sort_order |-> 0]}
  /\ tasks = {[id |-> 1, activity_id |-> 1, sort_order |-> 0]}
  /\ releases = {[id |-> 1, story_map_id |-> 1, sort_order |-> 0],
                 [id |-> 2, story_map_id |-> 1, sort_order |-> 1]}
  /\ stories = {[id |-> 1, task_id |-> 1, release_id |-> 1, sort_order |-> 0,
                       status |-> backlog, updated_at |-> 0],
                [id |-> 2, task_id |-> 1, release_id |-> 1, sort_order |-> 1,
                       status |-> backlog, updated_at |-> 0],
                [id |-> 3, task_id |-> 1, release_id |-> 2, sort_order |-> 0,
                       status |-> backlog, updated_at |-> 0],
                [id |-> 4, task_id |-> 1, release_id |-> NULL, sort_order |-> 0,
                       status |-> backlog, updated_at |-> 0]}
  /\ next_id = [activities |-> 2, tasks |-> 2, releases |-> 3, stories |-> 5, teams |-> 3, invites |-> 1]
  /\ response = NoResponse
  /\ fetch = Idle
  /\ Accounts
  /\ auth_uid \in Sessions

NextFetch ==
  \/ Deliver
  \/ \E m \in StoryMaps : GET_story_map_start(m)
  \/ GET_story_map_map
  \/ GET_story_map_activities
  \/ GET_story_map_releases
  \/ GET_story_map_respond
  \/ \E id \in FixtureIds, f \in 0..2 : DELETE_release_rpc(id, f)
  \/ \E id \in FixtureIds, f \in BOOLEAN : DELETE_release(id, f)

SpecFetch == InitFetch /\ [][NextFetch]_vars

\* Stories: creating, reading and deleting stories and deleting an
\* activity, over a store with two activities of one task each, one release,
\* and one story in the cell of task 1 and release 1.  Release 2 never
\* exists, and one more story can be created.
InitStories ==
  /\ activities = {[id |-> 1, story_map_id |-> 1, sort_order |-> 0],
                   [id |-> 2, story_map_id |-> 1, sort_order |-> 1]}
  /\ tasks = {[id |-> 1, activity_id |-> 1, sort_order |-> 0],
              [id |-> 2, activity_id |-> 2, sort_order |-> 0]}
  /\ releases = {[id |-> 1, story_map_id |-> 1, sort_order |-> 0]}
  /\ stories = {[id |-> 1, task_id |-> 1, release_id |-> 1, sort_order |-> 0,
                 status |-> backlog, updated_at |-> 0]}
  /\ next_id = [activities |-> 3, tasks |-> 3, releases |-> 2, stories |-> MaxStories,
                teams |-> 3, invites |-> 1]
  /\ response = NoResponse
  /\ fetch = Idle
  /\ Accounts
  /\ auth_uid \in Sessions

NextStories ==
  \/ Deliver
  \/ \E b \in BOOLEAN, t \in TaskIds, r \in ReleaseIds \cup {NULL, undefined},
        st \in BodyStatuses :
       POST_stories(b, t, r, st)
  \/ \E id \in PathIds(StoryIds) : GET_story(id)
  \/ \E id \in PathIds(StoryIds) : DELETE_story(id)
  \/ \E id \in PathIds(ActivityIds) : DELETE_activity(id)

SpecStories == InitStories /\ [][NextStories]_vars

\* Story update: PUT /api/stories/[id] with every body, over a store with
\* two stories under task 1, one in release 1 and one in the backlog.  Story
\* ids beyond 2 are ids of no row.
InitStoryUpdate ==
  /\ activities = {[id |-> 1, story_map_id |-> 1, sort_order |-> 0],
                   [id |-> 2, story_map_id |-> 1, sort_order |-> 1]}
  /\ tasks = {[id |-> 1, activity_id |-> 1, sort_order |-> 0],
              [id |-> 2, activity_id |-> 2, sort_order |-> 0]}
  /\ releases = {[id |-> 1, story_map_id |-> 1, sort_order |-> 0]}
  /\ stories = {[id |-> 1, task_id |-> 1, release_id |-> 1, sort_order |-> 0,
                 status |-> backlog, updated_at |-> 0],
                [id |-> 2, task_id |-> 1, release_id |-> NULL, sort_order |-> 0,
                 status |-> backlog, updated_at |-> 0]}
  /\ next_id = [activities |-> 3, tasks |-> 3, releases |-> 2, stories |-> 3, teams |-> 3, invites |-> 1]
  /\ response = NoResponse
  /\ fetch = Idle
  /\ Accounts
  /\ auth_uid \in Sessions

NextStoryUpdate ==
  \/ Deliver
  \/ \E id \in PathIds(StoryIds), t \in TaskIds \cup {undefined},
        r \in ReleaseIds \cup {NULL, undefined}, st \in BodyStatuses,
        s \in BodySortOrders, o \in BOOLEAN :
       PUT_story(id, t, r, st, s, o)

SpecStoryUpdate == InitStoryUpdate /\ [][NextStoryUpdate]_vars

\* Last write: two sessions, of users 1 and 2, both members of team 1,
\* updating the one story of the store in turn.  The store applies the
\* UPDATE statements of concurrent requests to a row one after the other, so
\* two concurrent updates are two PUT_story steps in either order.
InitLastWrite ==
  /\ activities = {[id |-> 1, story_map_id |-> 1, sort_order |-> 0],
                   [id |-> 2, story_map_id |-> 1, sort_order |-> 1]}
  /\ tasks = {[id |-> 1, activity_id |-> 1, sort_order |-> 0],
              [id |-> 2, activity_id |-> 2, sort_order |-> 0]}
  /\ releases = {[id |-> 1, story_map_id |-> 1, sort_order |-> 0]}
  /\ stories = {[id |-> 1, task_id |-> 1, release_id |-> 1, sort_order |-> 0,
                 status |-> backlog, updated_at |-> 0]}
  /\ next_id = [activities |-> 3, tasks |-> 3, releases |-> 2, stories |-> 2, teams |-> 3, invites |-> 1]
  /\ response = NoResponse
  /\ fetch = Idle
  /\ users = {1, 2}
  /\ teams = {[id |-> 1, name |-> "personal"], [id |-> 2, name |-> "personal"]}
  /\ team_members = {[team_id |-> 1, user_id |-> 1, role |-> "owner"],
                     [team_id |-> 1, user_id |-> 2, role |-> "member"],
                     [team_id |-> 2, user_id |-> 2, role |-> "owner"]}
  /\ team_invites = {}
  /\ story_maps = {[id |-> 1, team_id |-> 1]}
  /\ auth_uid = 1
  /\ now = 0

NextLastWrite ==
  \/ Deliver
  \/ \E u \in Users : signIn(u)
  \/ \E id \in {x.id : x \in stories}, t \in TaskIds \cup {undefined},
        r \in ReleaseIds \cup {NULL, undefined}, st \in BodyStatuses,
        s \in BodySortOrders, o \in BOOLEAN :
       PUT_story(id, t, r, st, s, o)

SpecLastWrite == InitLastWrite /\ [][NextLastWrite]_vars

(***************************************************************************)
(* The canvas moves a task to another activity, or a story to another      *)
(* cell, with two requests, the second awaited after the first: the        *)
(* update of the parent of the moved row, then the reorder of the target   *)
(* group.  Each is a request of its own at the store, and requests of      *)
(* other sessions are handled between the two.                             *)
(***************************************************************************)
\* fetch(`/api/tasks/${id}`, PUT, {activity_id: targetActivityId})
handleDragEnd_moveTask(id, targetActivityId) ==
  /\ \E t \in tasks : t.id = id /\ t.activity_id # targetActivityId
  /\ targetActivityId \in {a.id : a \in activities}
  /\ PUT_task(id, targetActivityId, undefined)

\* fetch('/api/tasks', PUT, {activity_id: targetActivityId, order: newOrder})
handleDragEnd_reorderTasks(targetActivityId, newOrder, failed) ==
  /\ targetActivityId \in {a.id : a \in activities}
  /\ PUT_tasks(targetActivityId, newOrder, failed)

\* fetch(`/api/stories/${id}`, PUT, {task_id, release_id})
handleDragEnd_moveStory(id, taskId, releaseId) ==
  /\ \E x \in stories : x.id = id /\ (x.task_id # taskId \/ x.release_id # releaseId)
  /\ taskId \in {t.id : t \in tasks}
  /\ releaseId \in {r.id : r \in releases} \cup {NULL}
  /\ PUT_story(id, taskId, releaseId, undefined, undefined, FALSE)

\* fetch('/api/stories', PUT, {task_id, release_id, order: newOrder})
handleDragEnd_reorderStories(taskId, releaseId, newOrder, failed) ==
  /\ taskId \in {t.id : t \in tasks}
  /\ releaseId \in {r.id : r \in releases} \cup {NULL}
  /\ PUT_stories(taskId, releaseId, newOrder, failed)

InitMove ==
  /\ activities = {[id |-> 1, story_map_id |-> 1, sort_order |-> 0],
                   [id |-> 2, story_map_id |-> 1, sort_order |-> 1]}
  /\ tasks = {[id |-> 1, activity_id |-> 1, sort_order |-> 0],
              [id |-> 2, activity_id |-> 2, sort_order |-> 0]}
  /\ releases = {[id |-> 1, story_map_id |-> 1, sort_order |-> 0]}
  /\ stories = {[id |-> 1, task_id |-> 1, release_id |-> 1, sort_order |-> 0,
                 status |-> backlog, updated_at |-> 0]}
  /\ next_id = [activities |-> 3, tasks |-> 3, releases |-> 2, stories |-> 2, teams |-> 3, invites |-> 1]
  /\ response = NoResponse
  /\ fetch = Idle
  /\ users = {1, 2}
  /\ teams = {[id |-> 1, name |-> "personal"], [id |-> 2, name |-> "personal"]}
  /\ team_members = {[team_id |-> 1, user_id |-> 1, role |-> "owner"],
                     [team_id |-> 1, user_id |-> 2, role |-> "member"],
                     [team_id |-> 2, user_id |-> 2, role |-> "owner"]}
  /\ team_invites = {}
  /\ story_maps = {[id |-> 1, team_id |-> 1]}
  /\ auth_uid = 1
  /\ now = 0

\* newOrder: the ids the canvas shows in the target group, each once
NewOrders(ids) == {o \in OrderLists(ids) : \A i, j \in 1..Len(o) : o[i] = o[j] => i = j}

NextMove ==
  \/ Deliver
  \/ \E u \in Users : signIn(u)
  \/ \E id \in TaskIds, p \in ActivityIds : handleDragEnd_moveTask(id, p)
  \/ \E p \in ActivityIds, o \in NewOrders({t.id : t \in tasks}), f \in BOOLEAN :
       handleDragEnd_reorderTasks(p, o, f)
  \/ \E id \in StoryIds, t \in TaskIds, r \in ReleaseIds \cup {NULL} :
       handleDragEnd_moveStory(id, t, r)
  \/ \E t \in TaskIds, r \in ReleaseIds \cup {NULL}, o \in NewOrders({x.id : x \in stories}),
        f \in BOOLEAN :
       handleDragEnd_reorderStories(t, r, o, f)

SpecMove == InitMove /\ [][NextMove]_vars

(***************************************************************************)
(* The grid of a story map: two story maps of one team, each with an       *)
(* activity, a task and a release, and a story in a cell of the first.     *)
(***************************************************************************)
InitGrid ==
  /\ activities = {[id |-> 1, story_map_id |-> 1, sort_order |-> 0],
                   [id |-> 2, story_map_id |-> 2, sort_order |-> 0]}
  /\ tasks = {[id |-> 1, activity_id |-> 1, sort_order |-> 0],
              [id |-> 2, activity_id |-> 2, sort_order |-> 0]}
  /\ releases = {[id |-> 1, story_map_id |-> 1, sort_order |-> 0],
                 [id |-> 2, story_map_id |-> 2, sort_order |-> 0]}
  /\ stories = {[id |-> 1, task_id |-> 1, release_id |-> 1, sort_order |-> 0,
                 status |-> backlog, updated_at |-> 0]}
  /\ next_id = [activities |-> 3, tasks |-> 3, releases |-> 3, stories |-> 2, teams |-> 3, invites |-> 1]
  /\ response = NoResponse
  /\ fetch = Idle
  /\ Accounts
  /\ auth_uid = 1

NextGrid ==
  \/ Deliver
  \/ \E b \in BOOLEAN, t \in TaskIds, r \in ReleaseIds \cup {NULL, undefined} :
       POST_stories(b, t, r, undefined)
  \/ \E id \in {x.id : x \in stories}, t \in TaskIds \cup {undefined},
        r \in ReleaseIds \cup {NULL, undefined} :
       PUT_story(id, t, r, undefined, undefined, FALSE)

SpecGrid == InitGrid /\ [][NextGrid]_vars

\* Teams: signup, sessions and the team endpoints.  Users 1 and 2 have
\* signed up and own their personal teams 1 and 2; user 2 has been added to
\* team 1 as a member; user 3 has not signed up yet.  Team 1 has a story map
\* with one activity.
InitTeams ==
  /\ activities = {[id |-> 1, story_map_id |-> 1, sort_order |-> 0]}
  /\ tasks = {}
  /\ releases = {}
  /\ stories = {}
  /\ next_id = [activities |-> 2, tasks |-> 1, releases |-> 1, stories |-> 1, teams |-> 3, invites |-> 1]
  /\ response = NoResponse
  /\ fetch = Idle
  /\ users = {1, 2}
  /\ teams = {[id |-> 1, name |-> "personal"], [id |-> 2, name |-> "personal"]}
  /\ team_members = {[team_id |-> 1, user_id |-> 1, role |-> "owner"],
                     [team_id |-> 1, user_id |-> 2, role |-> "member"],
                     [team_id |-> 2, user_id |-> 2, role |-> "owner"]}
  /\ team_invites = {}
  /\ story_maps = {[id |-> 1, team_id |-> 1]}
  /\ auth_uid = NULL
  /\ now = 0

NextTeams ==
  \/ Deliver
  \/ \E u \in Users : handle_new_user(u)
  \/ \E u \in Users : signIn(u)
  \/ GET_auth_logout
  \/ \E b \in BOOLEAN, n \in TeamNames, f \in 0..3 : POST_teams(b, n, f)
  \/ \E id \in PathIds(TeamIds), b \in BOOLEAN, n \in TeamNames : PUT_team(id, b, n)
  \/ \E id \in PathIds(TeamIds) : DELETE_team(id)
  \/ \E id \in PathIds(TeamIds), u \in PathIds(Users) : DELETE_member(id, u)

SpecTeams == InitTeams /\ [][NextTeams]_vars

(***************************************************************************)
(* The invites of the teams: two users with their personal teams, nobody   *)
(* signed in, no invite yet.                                               *)
(***************************************************************************)
InitInvites ==
  /\ activities = {}
  /\ tasks = {}
  /\ releases = {}
  /\ stories = {}
  /\ next_id = [activities |-> 1, tasks |-> 1, releases |-> 1, stories |-> 1, teams |-> 3, invites |-> 1]
  /\ response = NoResponse
  /\ fetch = Idle
  /\ users = {1, 2}
  /\ teams = {[id |-> 1, name |-> "personal"], [id |-> 2, name |-> "personal"]}
  /\ team_members = {[team_id |-> 1, user_id |-> 1, role |-> "owner"],
                     [team_id |-> 2, user_id |-> 2, role |-> "owner"]}
  /\ team_invites = {}
  /\ story_maps = {}
  /\ auth_uid = NULL
  /\ now = 0

NextInvites ==
  \/ Deliver
  \/ \E u \in Users : signIn(u)
  \/ \E id \in PathIds({1}), b \in BOOLEAN, e \in Users, i \in InviteOutcomes, f \in 0..4 :
       POST_invites(id, b, e, i, f)
  \/ \E id \in PathIds({1}), i \in PathIds(InviteIds) : DELETE_invite(id, i)
  \/ \E i \in InviteIds \cup {NULL} : AcceptInvitePage(i)

SpecInvites == InitInvites /\ [][NextInvites]_vars

(***************************************************************************)
(* The memberships of the teams, as their users reach them through the     *)
(* store: team 1 has its owner 1 and the member 2.                         *)
(***************************************************************************)
InitMembers ==
  /\ activities = {}
  /\ tasks = {}
  /\ releases = {}
  /\ stories = {}
  /\ next_id = [activities |-> 1, tasks |-> 1, releases |-> 1, stories |-> 1, teams |-> 3, invites |-> 1]
  /\ response = NoResponse
  /\ fetch = Idle
  /\ users = {1, 2}
  /\ teams = {[id |-> 1, name |-> "personal"], [id |-> 2, name |-> "personal"]}
  /\ team_members = {[team_id |-> 1, user_id |-> 1, role |-> "owner"],
                     [team_id |-> 1, user_id |-> 2, role |-> "member"],
                     [team_id |-> 2, user_id |-> 2, role |-> "owner"]}
  /\ team_invites = {}
  /\ story_maps = {}
  /\ auth_uid = NULL
  /\ now = 0

NextMembers ==
  \/ Deliver
  \/ \E u \in Users : signIn(u)
  \/ \E t \in TeamIds, r \in Roles : team_members_insert(t, r)
  \/ \E t \in TeamIds : team_members_delete(t)
  \/ \E id \in PathIds(TeamIds), u \in PathIds(Users) : DELETE_member(id, u)
  \/ \E t \in TeamIds, u \in Users : remove_team_member_rpc(t, u)

SpecMembers == InitMembers /\ [][NextMembers]_vars

(***************************************************************************)
(* Properties                                                              *)
(***************************************************************************)
ReorderOps == {"reorder_releases", "reorder_activities", "reorder_tasks", "reorder_stories"}

\* the table a reorder works on, out of the four given
TableOf(op, a, t, r, s) ==
  CASE op = "reorder_activities" -> a
    [] op = "reorder_tasks" -> t
    [] op = "reorder_releases" -> r
    [] op = "reorder_stories" -> s

\* row is a member of the sibling group the reorder request resp names
InGroup(row, resp) ==
  CASE resp.op = "reorder_stories" -> row.task_id = resp.key /\ row.release_id = resp.key2
    [] resp.op = "reorder_tasks" -> row.activity_id = resp.key
    [] OTHER -> row.story_map_id = resp.key

Reordered == response.op \in ReorderOps /\ response.status = 200

\* the policy of the table a reorder works on admits the row for the caller
Admitted(op, row) ==
  CASE op = "reorder_activities" -> activities_policy(row)
    [] op = "reorder_tasks" -> tasks_policy(row)
    [] op = "reorder_releases" -> releases_policy(row)
    [] op = "reorder_stories" -> stories_policy(row)

\* C1 (as amended): once a reorder call with the list [id_0..id_n] returns
\* success, every id_i that is a member of the named sibling group, in a
\* story map of a team the caller is a member of, has sort_order = i, where
\* i is the index of the first occurrence of the id in the list.
C1_ReorderSetsIndex ==
  Reordered =>
    \A row \in TableOf(response.op, activities, tasks, releases, stories) :
      \A i \in 1..Len(response.order) :
        ( /\ row.id = response.order[i]
          /\ InGroup(row, response)
          /\ Admitted(response.op, row)
          /\ \A j \in 1..(i - 1) : response.order[j] # row.id )
        => row.sort_order = i - 1

\* C1 (as stated): once a reorder call with the list [id_0..id_n] returns
\* success, every id_i in the list has sort_order = i.
C1_AsStated ==
  Reordered =>
    \A row \in TableOf(response.op, activities, tasks, releases, stories) :
      \A i \in 1..Len(response.order) :
        row.id = response.order[i] => row.sort_order = i - 1

\* C1 witness: a successful reorder with the list [2, 1] of two members of
\* the group has swapped them.
C1_Witness ==
  /\ Reordered
  /\ response.order = <<2, 1>>
  /\ \E r1, r2 \in TableOf(response.op, activities, tasks, releases, stories) :
       /\ r1.id = 1 /\ InGroup(r1, response) /\ r1.sort_order = 1
       /\ r2.id = 2 /\ InGroup(r2, response) /\ r2.sort_order = 0

DeletedRelease(resp) == resp.op = "delete_release" /\ resp.status = 200

C3_FetchSeesReleaseWithStories ==
  fetch.pc = "done" =>
    /\ \A s \in fetch.stories :
         s.release_id # NULL => \E r \in fetch.releases : r.id = s.release_id
    /\ \A r \in fetch.releases : \E s \in fetch.stories : s.release_id = r.id

Dense(group) ==
  /\ {r.sort_order : r \in group} = 0..(Cardinality(group) - 1)
  /\ \A r1, r2 \in group : r1.sort_order = r2.sort_order => r1 = r2

\* C7: in every reachable state, in every sibling group, the sort_order
\* values form the dense 0-based sequence 0..k-1 without gaps or duplicates.
C7_SortOrderDense ==
  /\ \A m \in StoryMaps : Dense({a \in activities : a.story_map_id = m})
  /\ \A m \in StoryMaps : Dense({r \in releases : r.story_map_id = m})
  /\ \A a \in activities : Dense({t \in tasks : t.activity_id = a.id})
  /\ \A s \in stories : Dense({x \in stories : x.task_id = s.task_id
                                               /\ x.release_id = s.release_id})

\* C8: a reorder call leaves every member of the sibling group that is not
\* in the list untouched: the row is the same after the call as before.
C8_ReorderLeavesUnlistedRows ==
  [][ response'.op \in ReorderOps =>
        \A row \in TableOf(response'.op, activities, tasks, releases, stories) :
          (InGroup(row, response') /\ ~ANY(row.id, response'.order))
            => row \in TableOf(response'.op, activities', tasks', releases', stories') ]_vars

\* C8 witness: a successful reorder with the list [2] has set member 2 to 0
\* and left member 1 of the same group, not listed, at 0.
C8_Witness ==
  /\ Reordered
  /\ response.order = <<2>>
  /\ \E r1, r2 \in TableOf(response.op, activities, tasks, releases, stories) :
       /\ r1.id = 1 /\ InGroup(r1, response) /\ r1.sort_order = 0
       /\ r2.id = 2 /\ InGroup(r2, response) /\ r2.sort_order = 0

\* C9: a reorder request whose order list is empty is rejected with 400
\* (or, from a caller with no session, with 401 before it is validated).
C9_EmptyReorderRejected ==
  (response.op \in ReorderOps /\ Len(response.order) = 0)
    => response.status \in {400, 401}

\* C10: a row inserted with no sort_order in the request gets max(sort_order
\* of its sibling group) + 1, or 0 in an empty group, from the store.
C10_InsertAppends ==
  [][ ( /\ response'.op \in {"create_activity", "create_task"}
        /\ response'.status = 200
        /\ response'.key2 = undefined )
      => LET group == IF response'.op = "create_task"
                      THEN {t \in tasks : t.activity_id = response'.key}
                      ELSE {a \in activities : a.story_map_id = response'.key}
             created == IF response'.op = "create_task"
                        THEN tasks' \ tasks ELSE activities' \ activities
         IN \A new \in created : new.sort_order = NextSortOrder(group) ]_vars

\* the caller has role member in the team
CallerIsMember(team_id) ==
  \E m \in team_members :
    m.team_id = team_id /\ m.user_id = auth_uid /\ m.role = "member"

C12_NonMemberSeesNotFound ==
  [][ ( /\ response'.op \in {"update_team", "delete_team", "remove_member"}
        /\ (response'.status \notin {400, 401} \/ response'.order # <<>>)
        /\ response'.key \in {t.id : t \in teams}
        /\ ~is_team_member(response'.key) )
      => /\ response'.op = "update_team" => response'.status = 404
         /\ response'.op = "delete_team" => response'.status = 200 /\ teams' = teams
         /\ response'.op = "remove_member" =>
              response'.status = 400 /\ response'.order = <<"Member not found">> ]_vars

\* C13: every team has at least one owner from the moment it is created:
\* once a team-creation operation (the signup trigger, POST /api/teams) has
\* finished, with success or with an error, every team row it has left in
\* the store has a team_members row of role owner for its creator.
C13_CreatedTeamHasOwner ==
  [][ \A t \in teams' :
        t.id \notin {x.id : x \in teams} =>
          \E m \in team_members' :
            /\ m.team_id = t.id
            /\ m.role = "owner"
            /\ m.user_id \in (users' \ users)
                  \cup (IF response'.op = "create_team" THEN {auth_uid} ELSE {}) ]_vars

\* C13 witness: user 3 has signed up and owns the team made for them, and
\* their request to create another team has finished with an error.
C13_Witness ==
  /\ auth_uid = 3
  /\ response.op = "create_team"
  /\ response.status = 500
  /\ \E t \in teams : \E m \in team_members :
       m.team_id = t.id /\ m.user_id = 3 /\ m.role = "owner"
  /\ \A t \in teams : \E m \in team_members : m.team_id = t.id /\ m.role = "owner"

\* C14: a story update whose body contains no recognized field is rejected
\* and leaves the story unchanged: PUT /api/stories/[id] with such a body
\* answers 400 and the stories table is as before, whoever the caller and
\* whatever the id.
C14_EmptyStoryUpdateRejected ==
  [][ \A id \in PathIds(StoryIds) :
        ( /\ response'.op = "update_story"
          /\ PUT_story(id, undefined, undefined, undefined, undefined, FALSE) )
        => response'.status = 400 /\ stories' = stories ]_vars

\* C14 witness: user 1 has sent a body with no recognized field to story 1,
\* a story they can see, and been answered 400 (the id is well-formed, so
\* the 400 is the one of the body).
C14_Witness ==
  /\ auth_uid = 1
  /\ response = Resp("update_story", 400, 1, NULL, <<>>)
  /\ found(stories, 1, stories_policy) # {}

\* the fields of a story that an update may name, and the values a body
\* may give each
StoryFields == {"task_id", "release_id", "status", "sort_order"}

FieldValues(f) ==
  IF f = "task_id" THEN TaskIds
  ELSE IF f = "release_id" THEN ReleaseIds \cup {NULL}
  ELSE IF f = "status" THEN BodyStatuses \ {undefined}
  ELSE 0..MaxSortOrder

\* the body {f: v}
OneField(f, v) == [g \in StoryFields |-> IF g = f THEN v ELSE undefined]

\* C15: updating a story with exactly one recognized field (for example
\* only status = done) changes that field and advances the modification
\* timestamp, and leaves every other field and the id of the row unchanged:
\* when PUT /api/stories/[id] with the body {f: v} succeeds, the row of that
\* id has f = v and a later updated_at, its other fields are as before, and
\* so is every other row.
C15_OneFieldStoryUpdate ==
  [][ \A id \in StoryIds, f \in StoryFields :
        \A v \in FieldValues(f) :
          LET body == OneField(f, v)
          IN ( /\ response' = Resp("update_story", 200, id, NULL, <<>>)
               /\ PUT_story(id, body.task_id, body.release_id, body.status,
                            body.sort_order, FALSE) )
             => \E old \in stories, new \in stories' :
                  /\ old.id = id
                  /\ new.id = id
                  /\ new[f] = v
                  /\ new.updated_at > old.updated_at
                  /\ \A g \in (DOMAIN old) \ {f, "updated_at"} : new[g] = old[g]
                  /\ stories' \ {new} = stories \ {old} ]_vars

\* C15 witness: the update of story 1 with {status: done} has succeeded: the
\* story is done, stamped later than at its creation, and in the cell and
\* at the position it was created in.
C15_Witness ==
  /\ response = Resp("update_story", 200, 1, NULL, <<>>)
  /\ \E s \in stories :
       /\ s.id = 1
       /\ s.status = done
       /\ s.updated_at = 1
       /\ s.task_id = 1 /\ s.release_id = 1 /\ s.sort_order = 0

\* C16: a story created without an explicit release_id is stored with
\* release_id = null (backlog) and does not appear in the story list of any
\* release: when POST /api/stories with a body without release_id
\* succeeds, the created row has release_id NULL and is in the cell of no
\* task and release.
C16_StoryWithoutReleaseIsBacklog ==
  [][ \A t \in TaskIds, st \in BodyStatuses :
        ( /\ response'.op = "create_story"
          /\ response'.status = 200
          /\ POST_stories(TRUE, t, undefined, st) )
        => \E s \in stories' :
             /\ s.id = response'.order[1]
             /\ s.id \notin {x.id : x \in stories}
             /\ s.release_id = NULL
             /\ \A r \in releases', t2 \in tasks' :
                  s \notin getStoriesForCell(stories', t2.id, r.id) ]_vars

\* C16 witness: a story has been created under task 1 with no release_id
\* in the body, while release 1 exists; it is in the backlog cell of its
\* task.
C16_Witness ==
  /\ response.op = "create_story"
  /\ response.status = 200
  /\ response.key = 1
  /\ response.key2 = undefined
  /\ \E r \in releases : r.id = 1
  /\ \E s \in getStoriesForCell(stories, 1, NULL) : <<s.id>> = response.order

\* C17: after an activity is deleted, no task that belonged to it and no
\* story under any of those tasks remains in the store.
C17_DeleteActivityCascades ==
  [][ (response'.op = "delete_activity" /\ response'.status = 200)
      => LET its_tasks == {t.id : t \in {x \in tasks : x.activity_id = response'.key}}
             their_stories == {s.id : s \in {x \in stories : x.task_id \in its_tasks}}
         IN /\ \A a \in activities' : a.id # response'.key
            /\ \A t \in tasks' : t.id \notin its_tasks /\ t.activity_id # response'.key
            /\ \A s \in stories' : s.id \notin their_stories /\ s.task_id \notin its_tasks ]_vars

\* C17 witness: activity 1 has been deleted, and with it its task 1 and
\* story 1 under that task; the story created under task 2 of activity 2 is
\* still there.
C17_Witness ==
  /\ response = Resp("delete_activity", 200, 1, NULL, <<>>)
  /\ now = 0
  /\ \A t \in tasks : t.id # 1
  /\ \A s \in stories : s.id # 1 /\ s.task_id = 2
  /\ stories # {}

\* C18: on every endpoint that takes a path id, a malformed id produces a
\* 400 response, and the id check happens before any access to the store:
\* the response to a request of the activity and task endpoints whose path
\* id is malformed is 400.
C18_MalformedIdIs400 ==
  ( /\ response.op \in {"update_activity", "update_task", "delete_activity", "delete_task"}
    /\ response.key = malformed )
  => response.status = 400

\* the table an update or a deletion is addressed to, as the caller sees it
Visible(op) ==
  IF op \in {"update_activity", "delete_activity"}
  THEN {a.id : a \in {x \in activities : activities_policy(x)}}
  ELSE {t.id : t \in {x \in tasks : tasks_policy(x)}}

\* C19: every API endpoint answers 401 to a request that carries no valid
\* session: while there is no session, every response of the story and
\* activity endpoints is a 401.
C19_NoSessionIs401 ==
  (auth_uid = NULL /\ response.op # "none") => response.status = 401

\* C20: an update or delete addressed to an entity id that does not exist
\* (or is not visible to the caller) is answered with 404, never with 500
\* and never with a success response; a body that is no valid update may be
\* answered 400 before the row is looked for.
C20_MissingIdIs404 ==
  [][ ( /\ response'.op \in {"update_activity", "update_task",
                             "delete_activity", "delete_task"}
        /\ isValidUuid(response'.key)
        /\ response'.key \notin Visible(response'.op) )
      => response'.status \in {400, 404} ]_vars

\* C21: when two sessions update the same entity concurrently, both
\* updates are accepted without a conflict error and, for each field, the
\* stored value is the one written by the update applied last; a field
\* supplied by only one of the two updates keeps that update's value.  Of
\* each update of a story, whatever was written before it and by whom: a
\* valid update of a visible story naming existing rows is answered 200,
\* and when it is, each field the body supplies has the value of the body
\* and each field it does not supply has the value it had.
C21_LastWriteWins ==
  [][ response'.op = "update_story" =>
      LET id == response'.key
      IN \A t \in TaskIds \cup {undefined}, r \in ReleaseIds \cup {NULL, undefined},
            st \in BodyStatuses, s \in BodySortOrders, o \in BOOLEAN :
           PUT_story(id, t, r, st, s, o)
           => /\ ( /\ found(stories, id, stories_policy) # {}
                   /\ atLeastOneField({t, r, st, s}, o)
                   /\ t \in {x.id : x \in tasks} \cup {undefined}
                   /\ r \in {x.id : x \in releases} \cup {NULL, undefined} )
                 => response'.status = 200
              /\ response'.status = 200
                 => \E old \in stories, new \in stories' :
                      /\ old.id = id
                      /\ new.id = id
                      /\ new.task_id = (IF t # undefined THEN t ELSE old.task_id)
                      /\ new.release_id = (IF r # undefined THEN r ELSE old.release_id)
                      /\ new.status = (IF st # undefined THEN st ELSE old.status)
                      /\ new.sort_order = (IF s # undefined THEN s ELSE old.sort_order)
                      /\ new.updated_at = now' ]_vars

\* C21 witness: the session of user 2 has updated story 1 after another
\* update of it: of status (done) and sort_order, one was written by one
\* update and one by the other or both by the last, and both values are
\* stored, with the time of the second update.
C21_Witness ==
  /\ auth_uid = 2
  /\ response = Resp("update_story", 200, 1, NULL, <<>>)
  /\ \E s \in stories :
       /\ s.id = 1
       /\ s.status = done
       /\ s.sort_order = MaxSortOrder
       /\ s.updated_at = 2

C23_AcceptedInviteJoinsTeam ==
  [][ ( /\ response'.op = "accept_invite"
        /\ auth_uid # NULL )
      => \A i \in team_invites :
           (i.id = response'.key /\ i.email = auth_uid /\ i.accepted_at = NULL)
           => /\ \E m \in team_members' :
                   m.team_id = i.team_id /\ m.user_id = auth_uid /\ m.role = "member"
              /\ \E j \in team_invites' : j.id = i.id /\ j.accepted_at # NULL ]_vars

\* C24: a user who is not an owner of a team that already has an owner never
\* obtains the owner role on that team by an operation of their own, the
\* deletion and the insertion of their own team_members rows included.
C24_NoSelfPromotionToOwner ==
  [][ \A t \in TeamIds :
        ( /\ auth_uid # NULL
          /\ auth_uid' = auth_uid
          /\ \E m \in team_members : m.team_id = t /\ m.role = "owner"
          /\ ~is_team_owner(t) )
        => ~ \E m \in team_members' :
               m.team_id = t /\ m.user_id = auth_uid /\ m.role = "owner" ]_vars

\* C25: remove_team_member deletes the target membership only when the
\* target is in the team with the role member and the caller is an owner of
\* that team or is the target; in every other case it removes no membership
\* row, so it never removes the owner of a team.
C25_RemoveOnlyMemberByOwnerOrSelf ==
  [][ response'.op \in {"remove_member", "rpc_remove_member"}
      => \A m \in team_members \ team_members' :
           /\ m.team_id = response'.key
           /\ m.user_id = response'.key2
           /\ m.role = "member"
           /\ (is_team_owner(m.team_id) \/ auth_uid = m.user_id) ]_vars

\* C26: whenever the invite-creation request ends with an error response,
\* no invite record created by that request remains pending, so a later
\* invite of the same email to the same team is not rejected as already
\* pending.
C26_FailedInviteLeavesNoPendingInvite ==
  [][ (response'.op = "create_invite" /\ response'.status >= 400)
      => \A i \in team_invites' :
           i.id \notin {x.id : x \in team_invites} => i.accepted_at # NULL ]_vars

\* C27: a reorder call never changes the sort_order of a row outside the
\* named sibling group, even when the id of that row is in the supplied
\* list.
C27_ReorderLeavesOtherGroups ==
  [][ response'.op \in ReorderOps
      => \A row \in TableOf(response'.op, activities, tasks, releases, stories) :
           ~InGroup(row, response')
           => \E new \in TableOf(response'.op, activities', tasks', releases', stories') :
                new.id = row.id /\ new.sort_order = row.sort_order ]_vars

\* the tasks of activity 4 are reordered by a member of the team with a list
\* that has task 3 of activity 5 at index 1, and task 3 keeps sort_order 0
C27_Witness ==
  /\ auth_uid = 1
  /\ response = Resp("reorder_tasks", 200, 4, NULL, <<1, 3>>)
  /\ \E t \in tasks : t.id = 1 /\ t.activity_id = 4 /\ t.sort_order = 0
  /\ \E t \in tasks : t.id = 3 /\ t.activity_id = 5 /\ t.sort_order = 0

\* C28: when the canvas moves a task to another activity, or a story to
\* another cell, the change of parent and the renumbering of the target
\* group take effect together: in no state reached, the states after a
\* failure of the second request or after a request of another session
\* included, is the moved item in the target group with a sort_order equal
\* to that of one of its new siblings.
C28_MoveAndRenumberTogether ==
  [][ /\ \A old \in tasks, new \in tasks' :
           (old.id = new.id /\ old.activity_id # new.activity_id)
           => \A sib \in tasks' :
                (sib.id # new.id /\ sib.activity_id = new.activity_id)
                => sib.sort_order # new.sort_order
      /\ \A old \in stories, new \in stories' :
           ( /\ old.id = new.id
             /\ (old.task_id # new.task_id \/ old.release_id # new.release_id) )
           => \A sib \in stories' :
                ( /\ sib.id # new.id
                  /\ sib.task_id = new.task_id /\ sib.release_id = new.release_id )
                => sib.sort_order # new.sort_order ]_vars

\* C29: in every reachable state each story belongs to exactly one cell of
\* the grid of its story map: its release_id is null or the id of a release
\* of the story map of the story's task, so no story is hidden from all
\* cells.
C29_StoryIsInOneCellOfItsMap ==
  \A s \in stories :
    \/ s.release_id = NULL
    \/ \E r \in releases, t \in tasks, a \in activities :
         /\ r.id = s.release_id
         /\ t.id = s.task_id
         /\ a.id = t.activity_id
         /\ r.story_map_id = a.story_map_id

\* C30: an authenticated user who requests /auth/logout reaches the logout
\* handler, is signed out, and is then sent to the login page; the request
\* is not redirected away before the sign-out happens.
C30_LogoutSignsOut ==
  [][ (response'.op = "logout" /\ auth_uid # NULL)
      => (auth_uid' = NULL /\ response'.order = <<"/auth/login">>) ]_vars

====
